---- MODULE Spec2Model ----
(***************************************************************************)
(* Model of the upload pipeline of Advantage-v1:                           *)
(*   - parseCSV (components/FileUpload.tsx, three-zone variant): header    *)
(*     and row validation, range checks, the error cap, aggregation of     *)
(*     the daily records into 3-day shots;                                 *)
(*   - the FileUpload component: its three pieces of state, the pending    *)
(*     FileReader callbacks with the render closure they captured, the     *)
(*     Remove / Re-upload button;                                          *)
(*   - App: the shot set it holds and the conditional rendering of         *)
(*     FileUpload.                                                         *)
(*                                                                         *)
(* Representation.  A JS number is an exact rational [n, d] in lowest      *)
(* terms (d > 0); NaN is carried beside it by ParseFloat.  A text file is  *)
(* the sequence of its lines and a line the sequence of its comma          *)
(* separated fields, each field a string.  A JS object is a function from  *)
(* its keys.  A multi-line message is the sequence of its lines.           *)
(* The rounding of the IEEE 754 binary64 additions is modelled apart, for  *)
(* the totals of calculateMetrics (section "IEEE 754 sums").               *)
(***************************************************************************)
EXTENDS Integers, Sequences, FiniteSets, TLC

\* ------------------------------------------------------------------ numbers

Abs(x) == IF x < 0 THEN -x ELSE x

Min(a, b) == IF a < b THEN a ELSE b

RECURSIVE Gcd(_, _)
Gcd(a, b) == IF b = 0 THEN a ELSE Gcd(b, a % b)

\* The number n/d (d > 0), in lowest terms.
Rat(n, d) ==
    LET g == Gcd(Abs(n), d) IN [n |-> n \div g, d |-> d \div g]

Num(k) == [n |-> k, d |-> 1]

Zero == Num(0)

One == Num(1)

RAdd(a, b) == Rat(a.n * b.d + b.n * a.d, a.d * b.d)

RMul(a, b) == Rat(a.n * b.n, a.d * b.d)

RLt(a, b) == a.n * b.d < b.n * a.d

\* a / k for an integer k > 0.
RDivInt(a, k) == Rat(a.n, a.d * k)

\* String(x) of a number: integers in decimal, halves as x.5.
NumberText(a) ==
    IF a.d = 1 THEN ToString(a.n)
    ELSE IF a.d = 2
         THEN (IF a.n < 0 THEN "-" ELSE "") \o ToString(Abs(a.n) \div 2) \o ".5"
         ELSE ToString(a.n) \o "/" \o ToString(a.d)

\* ------------------------------------------------------------------ strings

\* String.prototype.trim on the field vocabulary: the padded fields.
TrimOf ==
    (" 1 " :> "1") @@ (" " :> "") @@ (" CPM" :> "CPM")

Trim(s) == IF s \in DOMAIN TrimOf THEN TrimOf[s] ELSE s

\* String.prototype.toLowerCase on the header vocabulary.
LowerOf ==
    ("DATE" :> "date") @@ ("Date" :> "date") @@
    ("CPM" :> "cpm") @@ ("CTR" :> "ctr") @@ ("REACH" :> "reach") @@
    ("LINK CLICKS" :> "link clicks") @@
    ("Landing page views" :> "landing page views") @@
    ("Add to carts" :> "add to carts") @@
    ("Conversions" :> "conversions") @@ ("CPA" :> "cpa") @@
    ("ROAS" :> "roas") @@ ("Ad spent" :> "ad spent") @@
    ("AD FREQUENCY" :> "ad frequency") @@ ("Notes" :> "notes") @@
    ("FUNNEL STAGE" :> "funnel stage")

ToLowerCase(s) == IF s \in DOMAIN LowerOf THEN LowerOf[s] ELSE s

\* String.prototype.toUpperCase on the first-column vocabulary.
UpperOf ==
    ("date" :> "DATE") @@ ("Date" :> "DATE") @@ ("Day" :> "DAY") @@
    ("tof" :> "TOF") @@ ("mof" :> "MOF") @@ ("bof" :> "BOF") @@
    ("Funnel stage" :> "FUNNEL STAGE") @@ ("Other" :> "OTHER")

ToUpperCase(s) == IF s \in DOMAIN UpperOf THEN UpperOf[s] ELSE s

\* m.charAt(0).toUpperCase() + m.slice(1) on the required names.
CapitalOf ==
    ("cpm" :> "Cpm") @@ ("ctr" :> "Ctr") @@ ("reach" :> "Reach") @@
    ("link clicks" :> "Link clicks") @@
    ("landing page views" :> "Landing page views") @@
    ("add to carts" :> "Add to carts") @@
    ("initiate checkout" :> "Initiate checkout") @@
    ("conversions" :> "Conversions") @@ ("cpa" :> "Cpa") @@
    ("roas" :> "Roas") @@ ("ad spent" :> "Ad spent") @@
    ("ad frequency" :> "Ad frequency") @@ ("funnel stage" :> "Funnel stage")

Capitalize(s) == CapitalOf[s]

\* parseFloat on the field vocabulary: the fields that start with a number,
\* trailing characters ignored.  Every other field gives NaN.
FloatOf ==
    ("0" :> Num(0)) @@ ("1" :> Num(1)) @@ ("2" :> Num(2)) @@ ("3" :> Num(3)) @@
    ("4" :> Num(4)) @@ ("8" :> Num(8)) @@ ("10" :> Num(10)) @@
    ("12" :> Num(12)) @@ ("150" :> Num(150)) @@ ("150.00" :> Num(150)) @@
    ("-1" :> Num(-1)) @@ ("0.5" :> [n |-> 1, d |-> 2]) @@ ("12abc" :> Num(12)) @@
    ("1e1" :> Num(10)) @@ ("0.1" :> [n |-> 1, d |-> 10]) @@
    ("0.2" :> [n |-> 1, d |-> 5]) @@ ("0.3" :> [n |-> 3, d |-> 10])

ParseFloat(s) ==
    IF s \in DOMAIN FloatOf THEN [nan |-> FALSE, val |-> FloatOf[s]]
    ELSE [nan |-> TRUE, val |-> Zero]

\* Array.prototype.join(sep) of a sequence of strings.
RECURSIVE Join(_, _)
Join(ss, sep) ==
    IF ss = <<>> THEN ""
    ELSE IF Len(ss) = 1 THEN ss[1]
    ELSE ss[1] \o sep \o Join(Tail(ss), sep)

\* ------------------------------------------------------------------ objects

\* obj[key] = value
Put(obj, key, value) == (key :> value) @@ obj

\* obj[key] ?? 0
Get(obj, key) == IF key \in DOMAIN obj THEN obj[key] ELSE Zero

\* array.slice(from, to), 0-based, to exclusive.
Slice(s, from, to) == SubSeq(s, from + 1, Min(to, Len(s)))

\* ------------------------------------------------------------------ parseCSV

Stages == {"TOF", "MOF", "BOF"}

\* const limit = 5
ErrorLimit == 5

\* The window of the aggregation loop: i += 3, slice(i, i + 3).
ShotDays == 3

RequiredMetricNames ==
    << "cpm", "ctr", "reach", "link clicks", "landing page views",
       "add to carts", "initiate checkout", "conversions", "cpa", "roas",
       "ad spent", "ad frequency" >>

\* line.trim() !== '' fails: the line holds nothing but white space.
IsBlankLine(line) == Len(line) = 1 /\ Trim(line[1]) = ""

NotBlankLine(line) == ~IsBlankLine(line)

\* text.trim().split('\n').filter(line => line.trim() !== '')
Lines(text) == SelectSeq(text, NotBlankLine)

\* line.split(',').map(p => p.trim())
Parts(line) == [i \in 1..Len(line) |-> Trim(line[i])]

SeqRange(s) == {s[i] : i \in 1..Len(s)}

\* Mutant of MissingRequired: only the first missing name is kept.
MissingRequiredFirst(metricNames) ==
    LET present == {ToLowerCase(metricNames[i]) : i \in 1..Len(metricNames)}
        Missing(req) == req \notin present
    IN SubSeq(SelectSeq(RequiredMetricNames, Missing), 1, 1)

MissingRequired(metricNames) ==
    LET present == {ToLowerCase(metricNames[i]) : i \in 1..Len(metricNames)}
        Missing(req) == req \notin present
    IN SelectSeq(RequiredMetricNames, Missing)

MissingRequiredMsg(missing) ==
    "Missing required columns in header: "
        \o Join([i \in 1..Len(missing) |-> Capitalize(missing[i])], ", ")
        \o ". Please ensure they are present."

HeaderErrors(metricNames) ==
    LET missing == MissingRequired(metricNames)
    IN IF Len(missing) > 0 THEN << MissingRequiredMsg(missing) >> ELSE << >>

RowShapeMsg(rowIndex, expected, got) ==
    "Row " \o ToString(rowIndex + 2)
        \o ": Mismatched number of columns. Expected " \o ToString(expected)
        \o ", got " \o ToString(got) \o "."

TypeMsg(dateStr, headerName, valueStr) ==
    "Date " \o dateStr \o ", Column '" \o headerName
        \o "': Expected a number, but received '" \o valueStr \o "'."

\* Mutant of ParseCells: a non-numeric field is defaulted to 0 without an
\* error being recorded.
RECURSIVE ParseCellsLenient(_, _, _, _)
ParseCellsLenient(metricNames, parts, colIndex, row) ==
    IF colIndex >= Len(metricNames) THEN row
    ELSE LET headerName == metricNames[colIndex + 1]
             parsed == ParseFloat(parts[colIndex + 2])
             next ==
                IF ~parsed.nan
                THEN [entry |-> Put(row.entry, headerName, parsed.val),
                      errs |-> row.errs, valid |-> TRUE]
                ELSE [entry |-> Put(row.entry, headerName, Zero),
                      errs |-> row.errs, valid |-> row.valid]
         IN ParseCellsLenient(metricNames, parts, colIndex + 1, next)

\* metricNames.forEach((headerName, colIndex) => ...) from column colIndex on.
\* row = [entry, errs, valid]: dailyEntry, the errors pushed for this row and
\* rowHasValidMetricData.
RECURSIVE ParseCells(_, _, _, _)
ParseCells(metricNames, parts, colIndex, row) ==
    IF colIndex >= Len(metricNames) THEN row
    ELSE LET headerName == metricNames[colIndex + 1]
             valueStr == parts[colIndex + 2]
             parsed == ParseFloat(valueStr)
             next ==
                IF ~parsed.nan
                THEN [entry |-> Put(row.entry, headerName, parsed.val),
                      errs |-> row.errs, valid |-> TRUE]
                ELSE IF valueStr # ""
                THEN [entry |-> Put(row.entry, headerName, Zero),
                      errs |-> Append(row.errs,
                                      TypeMsg(parts[1], headerName, valueStr)),
                      valid |-> row.valid]
                ELSE [entry |-> Put(row.entry, headerName, Zero),
                      errs |-> row.errs, valid |-> row.valid]
         IN ParseCells(metricNames, parts, colIndex + 1, next)

\* Mutant of ParseRow: the row is pushed whether or not it has a numeric
\* field.
ParseRowKeepAll(line, rowIndex, rawHeaders, acc) ==
    LET parts == Parts(line)
    IN IF \A i \in 1..Len(parts) : parts[i] = "" THEN acc
       ELSE IF Len(parts) # Len(rawHeaders)
       THEN [acc EXCEPT !.errs =
                Append(@, RowShapeMsg(rowIndex, Len(rawHeaders), Len(parts)))]
       ELSE LET row == ParseCells(Tail(rawHeaders), parts, 0,
                                  [entry |-> ("date" :> parts[1]),
                                   errs |-> << >>, valid |-> FALSE])
            IN [daily |-> Append(acc.daily, row.entry),
                errs |-> acc.errs \o row.errs]

\* The body of lines.slice(1).forEach((line, rowIndex) => ...).
\* acc = [daily, errs]: dailyData and validationErrors so far.
ParseRow(line, rowIndex, rawHeaders, acc) ==
    LET parts == Parts(line)
    IN IF \A i \in 1..Len(parts) : parts[i] = "" THEN acc
       ELSE IF Len(parts) # Len(rawHeaders)
       THEN [acc EXCEPT !.errs =
                Append(@, RowShapeMsg(rowIndex, Len(rawHeaders), Len(parts)))]
       ELSE LET row == ParseCells(Tail(rawHeaders), parts, 0,
                                  [entry |-> ("date" :> parts[1]),
                                   errs |-> << >>, valid |-> FALSE])
            IN [daily |-> IF row.valid THEN Append(acc.daily, row.entry)
                          ELSE acc.daily,
                errs |-> acc.errs \o row.errs]

RECURSIVE ParseRows(_, _, _, _)
ParseRows(rows, rowIndex, rawHeaders, acc) ==
    IF rowIndex >= Len(rows) THEN acc
    ELSE ParseRows(rows, rowIndex + 1, rawHeaders,
                   ParseRow(rows[rowIndex + 1], rowIndex, rawHeaders, acc))

When(cond, msg) == IF cond THEN << msg >> ELSE << >>

\* The body of dailyData.forEach((day, idx) => ...): the range checks of one day.
RangeErrors(day) ==
    LET date == day["date"]
        adSpent == Get(day, "Ad spent")
        conversions == Get(day, "Conversions")
        linkClicks == Get(day, "LINK CLICKS")
        reach == Get(day, "REACH")
        ctr == Get(day, "CTR")
        roas == Get(day, "ROAS")
        adFrequency == Get(day, "AD FREQUENCY")
    IN When(RLt(adSpent, Zero),
            "Date " \o date \o ": 'Ad spent' cannot be negative.")
       \o When(RLt(conversions, Zero),
            "Date " \o date \o ": 'Conversions' cannot be negative.")
       \o When(RLt(linkClicks, Zero),
            "Date " \o date \o ": 'LINK CLICKS' cannot be negative.")
       \o When(RLt(reach, Zero),
            "Date " \o date \o ": 'REACH' cannot be negative.")
       \o When(RLt(adFrequency, Zero),
            "Date " \o date \o ": 'AD FREQUENCY' cannot be negative.")
       \o When(RLt(Zero, linkClicks) /\ RLt(Zero, reach) /\ RLt(reach, linkClicks),
            "Date " \o date \o ": Logical error - 'LINK CLICKS' ("
                \o NumberText(linkClicks) \o ") exceed 'REACH' ("
                \o NumberText(reach) \o ").")
       \o When(RLt(ctr, Zero) \/ RLt(One, ctr),
            "Date " \o date \o ": 'CTR' (" \o NumberText(ctr)
                \o ") is outside a plausible decimal range (0-1).")
       \o When(RLt(roas, Zero),
            "Date " \o date \o ": 'ROAS' (" \o NumberText(roas)
                \o ") cannot be negative.")

RECURSIVE RangeCheck(_)
RangeCheck(dailyData) ==
    IF dailyData = << >> THEN << >>
    ELSE RangeErrors(Head(dailyData)) \o RangeCheck(Tail(dailyData))

\* Lines 29-105 on the non-blank lines of a file whose header row was
\* accepted: [daily |-> dailyData, errs |-> validationErrors].
Validate(lines) ==
    LET rawHeaders == Parts(lines[1])
        scanned == ParseRows(Tail(lines), 0, rawHeaders,
                             [daily |-> << >>,
                              errs |-> HeaderErrors(Tail(rawHeaders))])
    IN [daily |-> scanned.daily,
        errs |-> scanned.errs \o RangeCheck(scanned.daily)]

\* Mutant of ErrorMsg: the overflow line is added from the limit on
\* (remaining >= 0).
ErrorMsgOffByOne(validationErrors) ==
    LET remaining == Len(validationErrors) - ErrorLimit
    IN Slice(validationErrors, 0, ErrorLimit)
       \o When(remaining >= 0,
               "...and " \o ToString(remaining) \o " more errors.")

\* The message thrown for a non-empty validationErrors, line by line.
ErrorMsg(validationErrors) ==
    LET remaining == Len(validationErrors) - ErrorLimit
    IN Slice(validationErrors, 0, ErrorLimit)
       \o When(remaining > 0,
               "...and " \o ToString(remaining) \o " more errors.")

RECURSIVE SumOf(_, _)
SumOf(days, metricName) ==
    IF days = << >> THEN Zero
    ELSE RAdd(Get(Head(days), metricName), SumOf(Tail(days), metricName))

ShotId(stage, shotNumber) == stage \o "-Shot " \o ToString(shotNumber)

\* Mutant of ShotEntry: the sum is divided by the nominal window size, not by
\* the number of days in the window.
ShotEntryFixedDivisor(daysInShot, shotNumber, stage, metricNames) ==
    LET base == [shotId |-> ShotId(stage, shotNumber),
                 startDate |-> daysInShot[1]["date"],
                 endDate |-> daysInShot[Len(daysInShot)]["date"],
                 numDaysInShot |-> Len(daysInShot),
                 funnelStage |-> stage]
        averages == [name \in SeqRange(metricNames) |->
                        RDivInt(SumOf(daysInShot, name), ShotDays)]
    IN averages @@ base

\* One iteration of the aggregation loop, for a non-empty daysInShot.
ShotEntry(daysInShot, shotNumber, stage, metricNames) ==
    LET base == [shotId |-> ShotId(stage, shotNumber),
                 startDate |-> daysInShot[1]["date"],
                 endDate |-> daysInShot[Len(daysInShot)]["date"],
                 numDaysInShot |-> Len(daysInShot),
                 funnelStage |-> stage]
        averages == [name \in SeqRange(metricNames) |->
                        RDivInt(SumOf(daysInShot, name), Len(daysInShot))]
    IN averages @@ base

\* Mutant of Aggregate: a trailing window of fewer than three days is dropped.
RECURSIVE AggregateFullOnly(_, _, _, _)
AggregateFullOnly(dailyData, i, stage, metricNames) ==
    IF i + ShotDays > Len(dailyData) THEN << >>
    ELSE << ShotEntry(Slice(dailyData, i, i + ShotDays), (i \div ShotDays) + 1,
                      stage, metricNames) >>
         \o AggregateFullOnly(dailyData, i + ShotDays, stage, metricNames)

\* for (let i = 0; i < numDays; i += 3) from index i on.
RECURSIVE Aggregate(_, _, _, _)
Aggregate(dailyData, i, stage, metricNames) ==
    IF i >= Len(dailyData) THEN << >>
    ELSE LET shotNumber == (i \div ShotDays) + 1
             daysInShot == Slice(dailyData, i, i + ShotDays)
         IN (IF Len(daysInShot) = 0 THEN << >>
             ELSE << ShotEntry(daysInShot, shotNumber, stage, metricNames) >>)
            \o Aggregate(dailyData, i + ShotDays, stage, metricNames)

Thrown(message) == [ok |-> FALSE, shots |-> << >>, message |-> message]

\* parseCSV without the throw on recorded validation errors.
ParseCSVLenient(text, stage) ==
    LET lines == Lines(text)
        metricNames == Tail(Parts(lines[1]))
        v == Validate(lines)
    IN IF Len(lines) < 2 \/ Len(metricNames) = 0 \/ Len(v.daily) = 0
       THEN Thrown(<< "Failed to parse CSV." >>)
       ELSE [ok |-> TRUE, shots |-> Aggregate(v.daily, 0, stage, metricNames),
             message |-> << >>]

\* The try block of parseCSV up to the merge: the shots of the upload, or the
\* message of the Error thrown.
ParseCSV(text, stage) ==
    LET lines == Lines(text)
    IN IF Len(lines) < 2
       THEN Thrown(<< "File appears empty or invalid. Expected at least a header row and one data row." >>)
       ELSE
       LET rawHeaders == Parts(lines[1])
           metricNames == Tail(rawHeaders)
       IN IF Len(rawHeaders) = 0 \/ ToUpperCase(rawHeaders[1]) # "DATE"
          THEN Thrown(<< "Invalid CSV header. Expected 'DATE' as the first column header." >>)
          ELSE IF Len(metricNames) = 0
          THEN Thrown(<< "No metric columns found in the header row." >>)
          ELSE
          LET v == Validate(lines)
              shotData == Aggregate(v.daily, 0, stage, metricNames)
          IN IF Len(v.errs) > 0 THEN Thrown(ErrorMsg(v.errs))
             ELSE IF Len(v.daily) = 0
             THEN Thrown(<< "No valid daily performance data rows could be parsed." >>)
             ELSE IF Len(shotData) = 0
             THEN Thrown(<< "No valid 3-day performance shots could be aggregated." >>)
             ELSE [ok |-> TRUE, shots |-> shotData, message |-> << >>]

\* ------------------------------------------------------------------ inputs

\* templateHeaders
TemplateHeader ==
    << "DATE", "CPM", "CTR", "REACH", "LINK CLICKS", "Landing page views",
       "Add to carts", "initiate checkout", "Conversions", "CPA", "ROAS",
       "Ad spent", "AD FREQUENCY" >>

\* A data line under TemplateHeader: every metric field is base, except the
\* columns named in over.
Row(date, base, over) ==
    << date >> \o [i \in 1..(Len(TemplateHeader) - 1) |->
                    IF TemplateHeader[i + 1] \in DOMAIN over
                    THEN over[TemplateHeader[i + 1]] ELSE base]

DayA == Row("1 Mar", "1", ("Conversions" :> "10") @@ ("Ad spent" :> "150") @@ ("REACH" :> "3"))

DayB == Row("2 Mar", "2", ("Conversions" :> "12") @@ ("Ad spent" :> "150") @@ ("CTR" :> "0.5") @@ ("REACH" :> "4"))

DayC == Row("3 Mar", "0", ("Conversions" :> "8") @@ ("Ad spent" :> "150.00") @@ ("CPM" :> " 1 "))

RowNA == Row("4 Mar", "1", ("Conversions" :> "N/A"))

RowJunk == Row("5 Mar", "1", ("Conversions" :> "12abc"))

RowNeg2 == Row("6 Mar", "1", ("Ad spent" :> "-1") @@ ("Conversions" :> "-1"))

RowNeg3 == Row("7 Mar", "1", ("LINK CLICKS" :> "-1") @@ ("REACH" :> "-1") @@ ("AD FREQUENCY" :> "-1"))

RowRate == Row("8 Mar", "1", ("CTR" :> "2") @@ ("ROAS" :> "-1"))

RowClicks == Row("9 Mar", "1", ("LINK CLICKS" :> "3") @@ ("REACH" :> "2"))

RowNegCost == Row("11 Mar", "1", ("CPM" :> "-1") @@ ("CPA" :> "-1"))

RowShort == SubSeq(DayA, 1, Len(DayA) - 1)

RowNoMetrics == Row("10 Mar", "", << >>)

RowAllEmpty == Row("", "", << >>)

BlankLine == << " " >>

ValidDays == {DayA, DayB, DayC}

MixedRows ==
    {DayA, DayB, RowNA, RowJunk, RowNeg2, RowNeg3, RowRate, RowClicks,
     RowNegCost, RowShort, RowNoMetrics, RowAllEmpty, BlankLine}

\* Rows tried under the headers other than the template's.
HeaderRows == {DayA, RowNA, RowClicks}

LowerHeader == [i \in 1..Len(TemplateHeader) |-> ToLowerCase(TemplateHeader[i])]

OtherHeaders ==
    { LowerHeader,
      << "Day" >> \o Tail(TemplateHeader),
      << "Date" >> \o Tail(TemplateHeader),
      << "Day" >> \o SubSeq(TemplateHeader, 2, 9),
      << "DATE" >>,
      SubSeq(TemplateHeader, 1, 9) \o SubSeq(TemplateHeader, 12, 13),
      SubSeq(TemplateHeader, 1, 2),
      TemplateHeader \o << "Notes" >> }

\* Bounds on the number of data lines of the files tried.
MaxValidRows == 6

MaxMixedRows == 3

MaxHeaderRows == 1

SeqsUpTo(S, n) == UNION {[1..k -> S] : k \in 0..n}

\* A line under TemplateHeader without the columns that are not in keep.
KeepColumns(line, keep) ==
    LET Kept[i \in 0..Len(line)] ==
            IF i = 0 THEN << >>
            ELSE IF i = 1 \/ TemplateHeader[i] \in keep
                 THEN Append(Kept[i - 1], line[i]) ELSE Kept[i - 1]
    IN Kept[Len(line)]

\* The files whose header keeps any subset of the template's metric columns:
\* with one data line of the same columns, and with more full-width data
\* lines than the error limit.
SubsetFiles ==
    LET subsets == SUBSET SeqRange(Tail(TemplateHeader))
    IN {<< KeepColumns(TemplateHeader, keep), KeepColumns(DayA, keep) >> :
            keep \in subsets}
       \cup {<< KeepColumns(TemplateHeader, keep) >>
                \o [i \in 1..(ErrorLimit + 1) |-> DayA] : keep \in subsets}

\* The uploads tried: <<text, stage>>.
ParseInputs ==
    (SubsetFiles \X {"BOF"}) \cup
    ({<< TemplateHeader >> \o rows : rows \in SeqsUpTo(ValidDays, MaxValidRows)}
        \X Stages)
    \cup ({<< TemplateHeader >> \o rows : rows \in SeqsUpTo(MixedRows, MaxMixedRows)}
        \X {"TOF"})
    \cup ({<< h >> \o rows : h \in OtherHeaders, rows \in SeqsUpTo(HeaderRows, MaxHeaderRows)}
        \X {"MOF"})
    \cup ({<< >>, << BlankLine >>} \X {"BOF"})

\* ------------------------------------------------------------------ state

\* The files a user uploads to a zone: one day (one shot), four days (two
\* shots), and a file with a non-numeric field.
FileA == << TemplateHeader, DayA >>

FileB == << TemplateHeader, DayA, DayB, DayC, DayB >>

FileBad == << TemplateHeader, DayA, RowNA >>

UploadTexts == {FileA, FileB, FileBad}

\* files[0]: whether it counts as CSV (type or name), and its text.
UploadFiles ==
    [csv : {TRUE}, text : UploadTexts] \cup {[csv |-> FALSE, text |-> FileA]}

\* The texts typed into the strategy box.
FundamentalsTexts == {"", "D2C brand"}

\* Bound on the number of handleFiles calls of a run.
MaxUploads == 3

VARIABLES
    csvText,                \* parseCSV alone: the text handed to parseCSV
    csvStage,               \*   the stage it was uploaded under
    parsed,                 \*   what parseCSV made of it
    parseDone,              \*   parseCSV has run
    errors,                 \* FileUpload: useState errors
    uploadedStages,         \*   useState uploadedStages
    accumulatedShots,       \*   useState accumulatedShots
    readers,                \*   the FileReaders whose onload has not run yet
    appState,               \* App: useState appState
    shotPerformanceData,    \*   useState shotPerformanceData
    userFundamentals,       \*   useState userFundamentals
    analysis,               \*   useState analysis (<< >> is null)
    metrics,                \*   useState metrics (<< >> is null)
    task,                   \*   the handleStartAnalysis call in flight
    started,                \* history: number of handleFiles calls
    called,                 \* history: the last handler called onDataLoaded
    latest,                 \* history: per stage, the shots of its last
                            \*   successful upload since the last reset/removal
    parsedFiles,            \* memo: what parseCSV makes of each file of the
                            \*   run under each stage; fixed from the start
    report,                 \* Dashboard: useState report (<< >> is null)
    roadmap,                \*   useState roadmap (<< >> is null)
    loadingReport,          \*   useState loadingReport
    loadingRoadmap,         \*   useState loadingRoadmap
    downloadingPdf,         \*   useState downloadingPdf
    activeTab,              \*   useState activeTab
    display,                \*   style.display of each no-print element
    pdf,                    \*   the handleDownloadPdf call in flight
    reportCalls,            \*   generateDetailedReport calls not yet settled
    roadmapCalls,           \*   generateMarketingRoadmap calls not yet settled
    html2pdf                \*   typeof window.html2pdf is 'function'

parseVars == << csvText, csvStage, parsed, parseDone >>

uploadVars == << errors, uploadedStages, accumulatedShots, readers >>

appVars == << appState, shotPerformanceData, userFundamentals, analysis, metrics, task >>

historyVars == << started, called, latest >>

dashboardVars ==
    << report, roadmap, loadingReport, loadingRoadmap, downloadingPdf,
       activeTab, display, pdf, reportCalls, roadmapCalls, html2pdf >>

vars == << parseVars, uploadVars, appVars, historyVars, parsedFiles, dashboardVars >>

IdleParse ==
    /\ csvText = << >>
    /\ csvStage = "TOF"
    /\ parsed = Thrown(<< >>)
    /\ parseDone = FALSE

\* parseCSV(text, stage) and the validation errors it records, for each file
\* a user may pick and each zone, computed once.
ParsedFiles ==
    {[text |-> text, stage |-> stage,
      recorded |-> Validate(Lines(text)).errs,
      result |-> ParseCSV(text, stage)] : text \in UploadTexts, stage \in Stages}

ParsedUpload(text, stage) ==
    CHOOSE u \in parsedFiles : u.text = text /\ u.stage = stage

IdleTask == [phase |-> "idle", data |-> << >>, fundamentals |-> ""]

InitFileUpload ==
    /\ errors = << >>
    /\ uploadedStages = << >>
    /\ accumulatedShots = << >>
    /\ readers = << >>

InitApp ==
    /\ appState = "LANDING"
    /\ shotPerformanceData = << >>
    /\ userFundamentals = ""
    /\ analysis = << >>
    /\ metrics = << >>
    /\ task = IdleTask

InitHistory ==
    /\ started = 0
    /\ called = FALSE
    /\ latest = [s \in Stages |-> << >>]

\* The elements of class no-print: the header, the tabs bar, the report
\* actions.
NoPrintElements == {"header", "tabs", "actions"}

IdlePdf == [phase |-> "idle", hidden |-> {}, outcome |-> "none"]

\* The Dashboard as it mounts.
MountDashboard ==
    /\ report = << >>
    /\ roadmap = << >>
    /\ loadingReport = FALSE
    /\ loadingRoadmap = FALSE
    /\ downloadingPdf = FALSE
    /\ activeTab = "overview"
    /\ display = [e \in NoPrintElements |-> ""]
    /\ pdf = IdlePdf
    /\ reportCalls = 0
    /\ roadmapCalls = 0

IdleDashboard == MountDashboard /\ html2pdf = TRUE

\* ------------------------------------------------------------------ parseCSV alone

InitParse ==
    /\ \E input \in ParseInputs : csvText = input[1] /\ csvStage = input[2]
    /\ parsed = Thrown(<< >>)
    /\ parseDone = FALSE
    /\ InitFileUpload /\ InitApp /\ InitHistory
    /\ parsedFiles = {}
    /\ IdleDashboard

RunParse ==
    /\ ~parseDone
    /\ parsed' = ParseCSV(csvText, csvStage)
    /\ parseDone' = TRUE
    /\ UNCHANGED << csvText, csvStage, uploadVars, appVars, historyVars, parsedFiles, dashboardVars >>

NextParse == RunParse

SpecParse == InitParse /\ [][NextParse]_vars

\* ------------------------------------------------------------------ parseCSV, single-file variant

\* components/FileUpload.tsx as one upload for the whole funnel: each row
\* carries its stage in a FUNNEL STAGE column, and parseCSV(text) hands the
\* shots to onDataLoaded itself.
SingleFileRequiredNames == RequiredMetricNames \o << "funnel stage" >>

SingleFileHeaderErrors(metricAndFunnelNames) ==
    LET present == {ToLowerCase(metricAndFunnelNames[i]) :
                        i \in 1..Len(metricAndFunnelNames)}
        Missing(req) == req \notin present
        missingRequired == SelectSeq(SingleFileRequiredNames, Missing)
    IN When(Len(missingRequired) > 0, MissingRequiredMsg(missingRequired))

StageMsg(dateStr, headerName, valueStr) ==
    "Date " \o dateStr \o ", Column '" \o headerName
        \o "': Invalid funnel stage '" \o valueStr
        \o "'. Expected TOF, MOF, or BOF."

\* metricAndFunnelNames.forEach over one data line, from column colIndex on.
RECURSIVE SingleFileParseCells(_, _, _, _)
SingleFileParseCells(names, parts, colIndex, row) ==
    IF colIndex >= Len(names) THEN row
    ELSE LET headerName == names[colIndex + 1]
             valueStr == parts[colIndex + 2]
             stage == ToUpperCase(valueStr)
             parsedValue == ParseFloat(valueStr)
             next ==
                IF ToUpperCase(headerName) = "FUNNEL STAGE"
                THEN IF stage \in {"TOF", "MOF", "BOF"}
                     THEN [row EXCEPT !.entry = Put(@, "FUNNEL STAGE", stage)]
                     ELSE [row EXCEPT
                             !.entry = Put(@, "FUNNEL STAGE", "UNKNOWN"),
                             !.errs = Append(@, StageMsg(parts[1], headerName,
                                                         valueStr))]
                ELSE IF ~parsedValue.nan
                THEN [entry |-> Put(row.entry, headerName, parsedValue.val),
                      errs |-> row.errs, valid |-> TRUE]
                ELSE IF valueStr # ""
                THEN [entry |-> Put(row.entry, headerName, Zero),
                      errs |-> Append(row.errs,
                                      TypeMsg(parts[1], headerName, valueStr)),
                      valid |-> row.valid]
                ELSE [entry |-> Put(row.entry, headerName, Zero),
                      errs |-> row.errs, valid |-> row.valid]
         IN SingleFileParseCells(names, parts, colIndex + 1, next)

\* One iteration of lines.slice(1).forEach.
SingleFileParseRow(line, rowIndex, rawHeaders, acc) ==
    LET parts == Parts(line)
    IN IF \A i \in 1..Len(parts) : parts[i] = "" THEN acc
       ELSE IF Len(parts) # Len(rawHeaders)
       THEN [acc EXCEPT !.errs =
                Append(@, RowShapeMsg(rowIndex, Len(rawHeaders), Len(parts)))]
       ELSE LET row == SingleFileParseCells(Tail(rawHeaders), parts, 0,
                                            [entry |-> ("date" :> parts[1]),
                                             errs |-> << >>, valid |-> FALSE])
            IN [daily |-> IF row.valid \/ "FUNNEL STAGE" \in DOMAIN row.entry
                          THEN Append(acc.daily, row.entry) ELSE acc.daily,
                errs |-> acc.errs \o row.errs]

RECURSIVE SingleFileParseRows(_, _, _, _)
SingleFileParseRows(rows, rowIndex, rawHeaders, acc) ==
    IF rowIndex >= Len(rows) THEN acc
    ELSE SingleFileParseRows(rows, rowIndex + 1, rawHeaders,
            SingleFileParseRow(rows[rowIndex + 1], rowIndex, rawHeaders, acc))

\* The checks of one day.
SingleFileRangeErrors(day) ==
    LET date == day["date"]
        adSpent == Get(day, "Ad spent")
        conversions == Get(day, "Conversions")
        linkClicks == Get(day, "LINK CLICKS")
        reach == Get(day, "REACH")
        ctr == Get(day, "CTR")
        roas == Get(day, "ROAS")
        adFrequency == Get(day, "AD FREQUENCY")
    IN When("FUNNEL STAGE" \notin DOMAIN day
                \/ day["FUNNEL STAGE"] \notin {"TOF", "MOF", "BOF"},
            "Date " \o date
                \o ": 'FUNNEL STAGE' is missing or invalid. Expected TOF, MOF, or BOF.")
       \o When(RLt(adSpent, Zero),
            "Date " \o date \o ": 'Ad spent' cannot be negative.")
       \o When(RLt(conversions, Zero),
            "Date " \o date \o ": 'Conversions' cannot be negative.")
       \o When(RLt(linkClicks, Zero),
            "Date " \o date \o ": 'LINK CLICKS' cannot be negative.")
       \o When(RLt(reach, Zero),
            "Date " \o date \o ": 'REACH' cannot be negative.")
       \o When(RLt(adFrequency, Zero),
            "Date " \o date \o ": 'AD FREQUENCY' cannot be negative.")
       \o When(RLt(Zero, linkClicks) /\ RLt(Zero, reach) /\ RLt(reach, linkClicks),
            "Date " \o date \o ": Logical error - 'LINK CLICKS' ("
                \o NumberText(linkClicks) \o ") exceed 'REACH' ("
                \o NumberText(reach) \o ").")
       \o When(RLt(ctr, Zero) \/ RLt(One, ctr),
            "Date " \o date \o ": 'CTR' (" \o NumberText(ctr)
                \o ") is outside a plausible decimal range (0-1). Please check if it's a percentage (e.g., 2% should be 0.02).")
       \o When(RLt(roas, Zero),
            "Date " \o date \o ": 'ROAS' (" \o NumberText(roas)
                \o ") cannot be negative.")

RECURSIVE SingleFileRangeCheck(_)
SingleFileRangeCheck(dailyData) ==
    IF dailyData = << >> THEN << >>
    ELSE SingleFileRangeErrors(Head(dailyData))
            \o SingleFileRangeCheck(Tail(dailyData))

\* Lines 27-121 on the non-blank lines of a file whose header row was
\* accepted: [daily |-> dailyData, errs |-> validationErrors].
SingleFileValidate(lines) ==
    LET rawHeaders == Parts(lines[1])
        scanned == SingleFileParseRows(Tail(lines), 0, rawHeaders,
                        [daily |-> << >>,
                         errs |-> SingleFileHeaderErrors(Tail(rawHeaders))])
    IN [daily |-> scanned.daily,
        errs |-> scanned.errs \o SingleFileRangeCheck(scanned.daily)]

\* stageCounts[stage] after daysInShot.forEach
StageCount(daysInShot, stage) ==
    Cardinality({i \in 1..Len(daysInShot) : daysInShot[i]["FUNNEL STAGE"] = stage})

\* predominantStage: the first of TOF, MOF, BOF with the highest count, TOF
\* when every count is 0.
PredominantStage(daysInShot) ==
    LET Step(best, stage) ==
            IF StageCount(daysInShot, stage) > best.maxCount
            THEN [stage |-> stage, maxCount |-> StageCount(daysInShot, stage)]
            ELSE best
    IN Step(Step(Step([stage |-> "TOF", maxCount |-> 0], "TOF"), "MOF"), "BOF").stage

\* One iteration of the aggregation loop, for a non-empty daysInShot.
SingleFileShotEntry(daysInShot, shotNumber, metricsToAverage) ==
    LET base == [shotId |-> "Shot " \o ToString(shotNumber),
                 startDate |-> daysInShot[1]["date"],
                 endDate |-> daysInShot[Len(daysInShot)]["date"],
                 numDaysInShot |-> Len(daysInShot),
                 funnelStage |-> PredominantStage(daysInShot)]
        averages == [name \in SeqRange(metricsToAverage) |->
                        RDivInt(SumOf(daysInShot, name), Len(daysInShot))]
    IN averages @@ base

\* for (let i = 0; i < numDays; i += 3) from index i on.
RECURSIVE SingleFileAggregate(_, _, _)
SingleFileAggregate(dailyData, i, metricsToAverage) ==
    IF i >= Len(dailyData) THEN << >>
    ELSE LET shotNumber == (i \div ShotDays) + 1
             daysInShot == Slice(dailyData, i, i + ShotDays)
         IN (IF Len(daysInShot) = 0 THEN << >>
             ELSE << SingleFileShotEntry(daysInShot, shotNumber, metricsToAverage) >>)
            \o SingleFileAggregate(dailyData, i + ShotDays, metricsToAverage)

\* parseCSV(text): the shots handed to onDataLoaded, or the message set as
\* the error.
SingleFileParseCSV(text) ==
    LET lines == Lines(text)
    IN IF Len(lines) < 2
       THEN Thrown(<< "File appears empty or invalid. Expected at least a header row and one data row." >>)
       ELSE
       LET rawHeaders == Parts(lines[1])
           metricAndFunnelNames == Tail(rawHeaders)
           NotStage(name) == ToUpperCase(name) # "FUNNEL STAGE"
           metricsToAverage == SelectSeq(metricAndFunnelNames, NotStage)
       IN IF Len(rawHeaders) = 0 \/ ToUpperCase(rawHeaders[1]) # "DATE"
          THEN Thrown(<< "Invalid CSV header. Expected 'DATE' as the first column header." >>)
          ELSE IF Len(metricAndFunnelNames) = 0
          THEN Thrown(<< "No metric or funnel stage columns found in the header row." >>)
          ELSE
          LET v == SingleFileValidate(lines)
              shotData == SingleFileAggregate(v.daily, 0, metricsToAverage)
          IN IF Len(v.errs) > 0 THEN Thrown(ErrorMsg(v.errs))
             ELSE IF Len(v.daily) = 0
             THEN Thrown(<< "No valid daily performance data rows could be parsed." >>)
             ELSE IF Len(shotData) = 0
             THEN Thrown(<< "No valid 3-day performance shots could be aggregated." >>)
             ELSE [ok |-> TRUE, shots |-> shotData, message |-> << >>]

\* The files tried: the template header with a FUNNEL STAGE column (or
\* without it), and up to MaxStagedRows rows that name their stage in upper
\* case, in lower case, wrongly or not at all.
StagedHeader == TemplateHeader \o << "FUNNEL STAGE" >>

StagedRows ==
    {DayA \o << "TOF" >>, DayB \o << "MOF" >>, DayC \o << "BOF" >>,
     DayB \o << "tof" >>, DayA \o << "Other" >>, DayC \o << "" >>}

MaxStagedRows == 4

SingleFileInputs ==
    {<< StagedHeader >> \o rows : rows \in SeqsUpTo(StagedRows, MaxStagedRows)}
        \cup {<< TemplateHeader, DayA >>, << TemplateHeader, DayA, DayB >>}

\* The upload of one file: parseCSV(text) in the onload of its reader; the
\* parent stores what onDataLoaded passes.
InitSingleFile ==
    /\ csvText \in SingleFileInputs /\ csvStage = "TOF"
    /\ parsed = Thrown(<< >>)
    /\ parseDone = FALSE
    /\ InitFileUpload /\ InitApp /\ InitHistory
    /\ parsedFiles = {}
    /\ IdleDashboard

RunSingleFile ==
    /\ ~parseDone
    /\ parsed' = SingleFileParseCSV(csvText)
    /\ parseDone' = TRUE
    /\ shotPerformanceData' = IF parsed'.ok THEN parsed'.shots ELSE shotPerformanceData
    /\ called' = parsed'.ok
    /\ errors' = IF parsed'.ok THEN << >>
                 ELSE IF parsed'.message = << >>
                 THEN ("file" :> << "Failed to parse CSV." >>)
                 ELSE ("file" :> parsed'.message)
    /\ UNCHANGED << csvText, csvStage, uploadedStages, accumulatedShots, readers >>
    /\ UNCHANGED << appState, userFundamentals, analysis, metrics, task >>
    /\ UNCHANGED << started, latest, parsedFiles, dashboardVars >>

NextSingleFile == RunSingleFile

SpecSingleFile == InitSingleFile /\ [][NextSingleFile]_vars

\* ------------------------------------------------------------------ calculateMetrics

\* a / b for b > 0.
RDiv(a, b) == Rat(a.n * b.d, a.d * b.n)

\* Mutant of DaysOf: every shot counts as three days.
DaysOfAlwaysThree(shot) == 3

\* shot.numDaysInShot ?? 3
DaysOf(shot) ==
    IF "numDaysInShot" \in DOMAIN shot THEN shot["numDaysInShot"] ELSE 3

\* Mutant of TotalOf: the shots' averages are added unweighted.
TotalOfUnweighted(data, key) ==
    LET Total[i \in 0..Len(data)] ==
            IF i = 0 THEN Zero ELSE RAdd(Total[i - 1], Get(data[i], key))
    IN Total[Len(data)]

\* Mutant of TotalOf: every shot is weighted by the days of the first shot.
TotalOfFirstDays(data, key) ==
    LET Total[i \in 0..Len(data)] ==
            IF i = 0 THEN Zero
            ELSE RAdd(Total[i - 1],
                      RMul(Get(data[i], key), Num(DaysOf(data[1]))))
    IN Total[Len(data)]

\* total += (shot[key] ?? 0) * daysInShot over data.forEach
RECURSIVE TotalOf(_, _)
TotalOf(data, key) ==
    IF data = << >> THEN Zero
    ELSE RAdd(RMul(Get(Head(data), key), Num(DaysOf(Head(data)))),
              TotalOf(Tail(data), key))

\* sum += (shot[key] ?? 0) over data.forEach
RECURSIVE SumShots(_, _)
SumShots(data, key) ==
    IF data = << >> THEN Zero
    ELSE RAdd(Get(Head(data), key), SumShots(Tail(data), key))

\* Mutant of AverageOf: the division is not guarded (0 / 0 on no shots).
AverageOfUnguarded(data, key) ==
    IF Len(data) > 0 THEN RDivInt(SumShots(data, key), Len(data))
    ELSE [n |-> 0, d |-> 0]

\* Mutant of AverageOf: the shots are weighted by their days.
AverageOfByDays(data, key) ==
    LET Days[i \in 0..Len(data)] ==
            IF i = 0 THEN 0 ELSE Days[i - 1] + DaysOf(data[i])
    IN IF Len(data) > 0 THEN RDivInt(TotalOf(data, key), Days[Len(data)])
       ELSE Zero

AverageOf(data, key) ==
    IF Len(data) > 0 THEN RDivInt(SumShots(data, key), Len(data)) ELSE Zero

CalculateMetrics(data) ==
    LET totalAdSpent == TotalOf(data, "Ad spent")
        totalLinkClicks == TotalOf(data, "LINK CLICKS")
        avgCPM == AverageOf(data, "CPM")
    IN [totalAdSpent |-> totalAdSpent,
        totalConversions |-> TotalOf(data, "Conversions"),
        totalLinkClicks |-> totalLinkClicks,
        totalReach |-> TotalOf(data, "REACH"),
        totalLPViews |-> TotalOf(data, "Landing page views"),
        totalATCs |-> TotalOf(data, "Add to carts"),
        totalICs |-> TotalOf(data, "initiate checkout"),
        avgCPM |-> avgCPM,
        avgCTR |-> AverageOf(data, "CTR"),
        avgROAS |-> AverageOf(data, "ROAS"),
        avgCPA |-> AverageOf(data, "CPA"),
        avgAdFrequency |-> AverageOf(data, "AD FREQUENCY"),
        cpc |-> IF RLt(Zero, totalLinkClicks)
                THEN RDiv(totalAdSpent, totalLinkClicks) ELSE Zero,
        totalImpressions |->
            IF RLt(Zero, avgCPM) /\ RLt(Zero, totalAdSpent)
            THEN RMul(RDiv(totalAdSpent, avgCPM), Num(1000)) ELSE Zero]

\* ------------------------------------------------------------------ IEEE 754 sums

\* The numbers of the code are IEEE 754 binary64 values and its += rounds to
\* nearest, ties to even.  A non-negative finite double is [mant, exp]: mant
\* the 53 bits of its significand, lowest bit first and highest bit 1, and its
\* value mant * 2^exp; zero has no bits.
Precision == 53

Binary64Zero == [mant |-> << >>, exp |-> 0]

\* x + y on naturals written in bits, lowest bit first.
RECURSIVE Ripple(_, _, _)
Ripple(x, y, carry) ==
    IF x = << >> /\ y = << >>
    THEN IF carry = 1 THEN << 1 >> ELSE << >>
    ELSE LET a == IF x = << >> THEN 0 ELSE Head(x)
             b == IF y = << >> THEN 0 ELSE Head(y)
         IN << (a + b + carry) % 2 >>
                \o Ripple(IF x = << >> THEN x ELSE Tail(x),
                          IF y = << >> THEN y ELSE Tail(y),
                          (a + b + carry) \div 2)

\* The position of the highest bit set, 0 when there is none.
Width(bits) ==
    LET ones == {i \in 1..Len(bits) : bits[i] = 1}
    IN IF ones = {} THEN 0 ELSE CHOOSE i \in ones : \A j \in ones : j <= i

\* bits * 2^k
ShiftLeft(bits, k) == [i \in 1..k |-> 0] \o bits

\* The double nearest to bits * 2^exp, ties to even.
RoundBits(bits, exp) ==
    LET n == Width(bits)
        k == n - Precision
        kept == SubSeq(bits, k + 1, n)
        up == /\ bits[k] = 1
              /\ (kept[1] = 1 \/ \E i \in 1..(k - 1) : bits[i] = 1)
        r == IF up THEN Ripple(kept, << >>, 1) ELSE kept
    IN IF n = 0 THEN Binary64Zero
       ELSE IF k <= 0
       THEN [mant |-> ShiftLeft(SubSeq(bits, 1, n), -k), exp |-> exp + k]
       ELSE IF Width(r) > Precision
       THEN [mant |-> SubSeq(r, 2, Precision + 1), exp |-> exp + k + 1]
       ELSE [mant |-> SubSeq(r, 1, Precision), exp |-> exp + k]

\* a + b
Binary64Add(a, b) ==
    IF a.mant = << >> THEN b
    ELSE IF b.mant = << >> THEN a
    ELSE LET e == Min(a.exp, b.exp)
         IN RoundBits(Ripple(ShiftLeft(a.mant, a.exp - e),
                             ShiftLeft(b.mant, b.exp - e), 0), e)

\* a * k for a small natural k: the exact product, rounded once.
Binary64Times(a, k) ==
    LET Product[i \in 0..k] ==
            IF i = 0 THEN << >> ELSE Ripple(Product[i - 1], a.mant, 0)
    IN RoundBits(Product[k], a.exp)

\* The double 0x1.h1h2...h13 * 2^(exp + 52), from its hexadecimal digits.
Binary64Hex(digits, exp) ==
    [mant |-> [i \in 1..Precision |->
                  IF i = Precision THEN 1
                  ELSE (digits[13 - ((i - 1) \div 4)] \div (2 ^ ((i - 1) % 4))) % 2],
     exp |-> exp]

\* The bits of a natural.
RECURSIVE BitsOf(_)
BitsOf(n) == IF n = 0 THEN << >> ELSE << n % 2 >> \o BitsOf(n \div 2)

\* The doubles of the decimal fractions of the field vocabulary:
\* 0.1 = 0x1.999999999999ap-4, 0.2 = 0x1.999999999999ap-3,
\* 0.3 = 0x1.3333333333333p-2.
Binary64Of ==
    ([n |-> 1, d |-> 10] :> Binary64Hex(<< 9, 9, 9, 9, 9, 9, 9, 9, 9, 9, 9, 9, 10 >>, -56))
        @@ ([n |-> 1, d |-> 5] :> Binary64Hex(<< 9, 9, 9, 9, 9, 9, 9, 9, 9, 9, 9, 9, 10 >>, -55))
        @@ ([n |-> 3, d |-> 10] :> Binary64Hex(<< 3, 3, 3, 3, 3, 3, 3, 3, 3, 3, 3, 3, 3 >>, -54))

\* The numbers whose double is known here: the naturals and the fractions of
\* Binary64Of.
IsBinary64(a) == (a.d = 1 /\ a.n >= 0) \/ a \in DOMAIN Binary64Of

\* The double of such a number.
Binary64(a) == IF a.d = 1 THEN RoundBits(BitsOf(a.n), 0) ELSE Binary64Of[a]

\* total += (shot[key] ?? 0) * daysInShot over data.forEach, as the engine
\* computes it.
TotalOfBinary64(data, key) ==
    LET Total[i \in 0..Len(data)] ==
            IF i = 0 THEN Binary64Zero
            ELSE Binary64Add(Total[i - 1],
                             Binary64Times(Binary64(Get(data[i], key)),
                                           DaysOf(data[i])))
    IN Total[Len(data)]

\* ------------------------------------------------------------------ calculateMetrics alone

RowZero == Row("12 Mar", "0", << >>)

\* Days on which a tenth, two tenths, three tenths were spent.
RowTenth(text) == Row("13 Mar", "0", ("Ad spent" :> text))

\* A shot as an older producer would leave it: without numDaysInShot.
WithoutDays(shot) == [k \in DOMAIN shot \ {"numDaysInShot"} |-> shot[k]]

\* The shots tried: the shots of three, two and one day that parseCSV makes of
\* the upload files, a shot with negative CPM and CPA, a shot of zeros, a shot
\* under lower-case metric names, a shot without numDaysInShot, and three
\* one-day shots with ad spend 0.1, 0.2 and 0.3.
ShotPool ==
    SeqRange(ParseCSV(FileB, "TOF").shots)
        \cup SeqRange(ParseCSV(<< TemplateHeader, DayA, DayB >>, "TOF").shots)
        \cup SeqRange(ParseCSV(<< TemplateHeader, RowNegCost >>, "MOF").shots)
        \cup SeqRange(ParseCSV(<< TemplateHeader, RowZero >>, "MOF").shots)
        \cup SeqRange(ParseCSV(<< LowerHeader, DayA >>, "BOF").shots)
        \cup {WithoutDays(ParseCSV(FileB, "BOF").shots[1])}
        \cup SeqRange(ParseCSV(<< TemplateHeader, RowTenth("0.1") >>, "TOF").shots)
        \cup SeqRange(ParseCSV(<< TemplateHeader, RowTenth("0.2") >>, "MOF").shots)
        \cup SeqRange(ParseCSV(<< TemplateHeader, RowTenth("0.3") >>, "BOF").shots)

\* Bound on the length of the shot sequences tried.
MaxShots == 3

InitMetrics ==
    /\ IdleParse /\ InitFileUpload /\ InitHistory
    /\ parsedFiles = {}
    /\ IdleDashboard
    /\ appState = "LANDING"
    /\ shotPerformanceData \in SeqsUpTo(ShotPool, MaxShots)
    /\ userFundamentals = ""
    /\ analysis = << >>
    /\ metrics = << >>
    /\ task = IdleTask

\* setMetrics(calculateMetrics(data))
RunMetrics ==
    /\ metrics = << >>
    /\ metrics' = << CalculateMetrics(shotPerformanceData) >>
    /\ UNCHANGED << appState, shotPerformanceData, userFundamentals, analysis, task >>
    /\ UNCHANGED << parseVars, uploadVars, historyVars, parsedFiles, dashboardVars >>

NextMetrics == RunMetrics

SpecMetrics == InitMetrics /\ [][NextMetrics]_vars

\* ------------------------------------------------------------------ FileUpload

\* shots.filter(s => s.funnelStage === stage)
StageShots(shots, stage) ==
    LET Same(s) == s["funnelStage"] = stage IN SelectSeq(shots, Same)

\* The filter that keeps every shot.
OtherShotsKeepAll(shots, stage) == shots

\* shots.filter(s => s.funnelStage !== stage)
OtherShots(shots, stage) ==
    LET Other(s) == s["funnelStage"] # stage IN SelectSeq(shots, Other)

\* The merge that appends without dropping the stage's earlier shots.
MergeAppend(closure, stage, shotData) == closure \o shotData

\* newAccumulatedShots, from the accumulatedShots of the render that created
\* the callback.
Merge(closure, stage, shotData) == OtherShots(closure, stage) \o shotData

\* err.message || "Failed to parse CSV."
MessageOf(p) ==
    IF p.message = << >> THEN << "Failed to parse CSV." >> ELSE p.message

IsUploaded(stage) ==
    stage \in DOMAIN uploadedStages /\ uploadedStages[stage]

RemoveAt(s, i) == SubSeq(s, 1, i - 1) \o SubSeq(s, i + 1, Len(s))

\* App shows the Dashboard.
DashboardShown ==
    appState = "DASHBOARD" /\ analysis # << >> /\ metrics # << >>

\* App shows the upload / strategy card.
CardShown ==
    ~DashboardShown /\ appState # "ANALYZING" /\ appState # "LANDING"

\* App renders <FileUpload>: the card, while it holds no shots.
FileUploadRendered == CardShown /\ Len(shotPerformanceData) = 0

\* The component can be used: always when it stands alone, and while App
\* renders it when composed.
Mounted(composed) == ~composed \/ FileUploadRendered

\* History: the upload for stage landed while the reads in rds were pending.
Raced(rds, stage) ==
    [i \in DOMAIN rds |->
        IF rds[i].stage # stage
        THEN [rds[i] EXCEPT !.raced = @ \cup {stage}] ELSE rds[i]]

\* History: stage was removed while the reads in rds were pending.
Unraced(rds, stage) ==
    [i \in DOMAIN rds |-> [rds[i] EXCEPT !.raced = @ \ {stage}]]

\* The component state after a handler that leaves it at (e, u, a, rds):
\* when App no longer renders FileUpload the instance is unmounted, its state
\* is gone (a later instance starts afresh) and the callbacks it left behind
\* can no longer set it.
Settle(composed, e, u, a, rds) ==
    IF composed /\ ~FileUploadRendered'
    THEN /\ errors' = << >>
         /\ uploadedStages' = << >>
         /\ accumulatedShots' = << >>
         /\ readers' = [i \in DOMAIN rds |-> [rds[i] EXCEPT !.live = FALSE]]
    ELSE /\ errors' = e
         /\ uploadedStages' = u
         /\ accumulatedShots' = a
         /\ readers' = rds

\* handleFiles(files, stage) with files[0] = file (drop on the zone, or the
\* file input).
HandleFiles(stage, file, composed) ==
    /\ Mounted(composed)
    /\ started < MaxUploads
    /\ started' = started + 1
    /\ called' = FALSE
    /\ IF ~file.csv
       THEN /\ errors' = Put(errors, stage, << "Please upload a CSV file." >>)
            /\ UNCHANGED readers
       ELSE /\ readers' = Append(readers,
                                 [stage |-> stage, text |-> file.text,
                                  closure |-> accumulatedShots,
                                  live |-> TRUE, raced |-> {}])
            /\ UNCHANGED errors
    /\ UNCHANGED << uploadedStages, accumulatedShots, appVars, latest, parseVars, parsedFiles, dashboardVars >>

\* reader.onload of the i-th pending reader: parseCSV(text, stage) with the
\* merge, the state updates and onDataLoaded, or the catch.
OnLoad(i, composed) ==
    /\ i \in 1..Len(readers)
    /\ LET r == readers[i]
           p == ParsedUpload(r.text, r.stage).result
           newAccumulatedShots == Merge(r.closure, r.stage, p.shots)
           rest == RemoveAt(readers, i)
       IN IF p.ok
          THEN /\ shotPerformanceData' = newAccumulatedShots
               /\ called' = TRUE
               /\ latest' = [latest EXCEPT ![r.stage] = p.shots]
               /\ UNCHANGED << appState, userFundamentals, analysis, metrics, task >>
               /\ Settle(composed,
                         IF r.live THEN Put(errors, r.stage, << >>) ELSE errors,
                         IF r.live THEN Put(uploadedStages, r.stage, TRUE)
                                   ELSE uploadedStages,
                         IF r.live THEN newAccumulatedShots ELSE accumulatedShots,
                         Raced(rest, r.stage))
          ELSE /\ called' = FALSE
               /\ UNCHANGED << appVars, latest >>
               /\ Settle(composed,
                         IF r.live THEN Put(errors, r.stage, MessageOf(p))
                                   ELSE errors,
                         uploadedStages, accumulatedShots, rest)
    /\ UNCHANGED << started, parseVars, parsedFiles, dashboardVars >>

\* The Remove / Re-upload button of a zone.
Remove(stage, composed) ==
    /\ Mounted(composed)
    /\ IsUploaded(stage)
    /\ LET newAccumulated == OtherShots(accumulatedShots, stage)
       IN /\ shotPerformanceData' = newAccumulated
          /\ called' = TRUE
          /\ latest' = [latest EXCEPT ![stage] = << >>]
          /\ UNCHANGED << appState, userFundamentals, analysis, metrics, task >>
          /\ Settle(composed, errors, Put(uploadedStages, stage, FALSE),
                    newAccumulated, Unraced(readers, stage))
    /\ UNCHANGED << started, parseVars, parsedFiles, dashboardVars >>

\* FileUpload on its own: the parent keeps it mounted and stores what
\* onDataLoaded passes (handleDataLoaded).
InitUpload ==
    /\ IdleParse /\ InitFileUpload /\ InitApp /\ InitHistory
    /\ parsedFiles = ParsedFiles
    /\ IdleDashboard

NextUpload ==
    \/ \E stage \in Stages, file \in UploadFiles : HandleFiles(stage, file, FALSE)
    \/ \E i \in 1..MaxUploads : OnLoad(i, FALSE)
    \/ \E stage \in Stages : Remove(stage, FALSE)

SpecUpload == InitUpload /\ [][NextUpload]_vars

\* ------------------------------------------------------------------ App

\* Landing page, Start Analysis.
GoUpload ==
    /\ appState = "LANDING"
    /\ appState' = "UPLOAD"
    /\ called' = FALSE
    /\ UNCHANGED << shotPerformanceData, userFundamentals, analysis, metrics, task >>
    /\ Settle(TRUE, errors, uploadedStages, accumulatedShots, readers)
    /\ UNCHANGED << started, latest, parseVars, parsedFiles, dashboardVars >>

\* Reset / Re-upload on the card: setShotPerformanceData([]).
ResetData ==
    /\ CardShown /\ Len(shotPerformanceData) # 0
    /\ shotPerformanceData' = << >>
    /\ called' = FALSE
    /\ latest' = [s \in Stages |-> << >>]
    /\ UNCHANGED << appState, userFundamentals, analysis, metrics, task >>
    /\ Settle(TRUE, errors, uploadedStages, accumulatedShots, readers)
    /\ UNCHANGED << started, parseVars, parsedFiles, dashboardVars >>

\* The strategy box: setUserFundamentals(e.target.value).
SetFundamentals(text) ==
    /\ CardShown /\ Len(shotPerformanceData) # 0
    /\ text # userFundamentals
    /\ userFundamentals' = text
    /\ called' = FALSE
    /\ UNCHANGED << appState, shotPerformanceData, analysis, metrics, task >>
    /\ Settle(TRUE, errors, uploadedStages, accumulatedShots, readers)
    /\ UNCHANGED << started, latest, parseVars, parsedFiles, dashboardVars >>

\* handleStartAnalysis up to its first await.
StartAnalysis ==
    /\ CardShown /\ Len(shotPerformanceData) # 0
    /\ Trim(userFundamentals) # ""
    /\ appState' = "ANALYZING"
    /\ task' = [phase |-> "delay", data |-> shotPerformanceData,
                fundamentals |-> userFundamentals]
    /\ called' = FALSE
    /\ UNCHANGED << shotPerformanceData, userFundamentals, analysis, metrics >>
    /\ Settle(TRUE, errors, uploadedStages, accumulatedShots, readers)
    /\ UNCHANGED << started, latest, parseVars, parsedFiles, dashboardVars >>

\* handleStartAnalysis after the delay: setMetrics, then analyzeCampaigns is
\* called.
DelayDone ==
    /\ task.phase = "delay"
    /\ metrics' = << CalculateMetrics(task.data) >>
    /\ task' = [task EXCEPT !.phase = "calling"]
    /\ called' = FALSE
    /\ UNCHANGED << appState, shotPerformanceData, userFundamentals, analysis >>
    /\ Settle(TRUE, errors, uploadedStages, accumulatedShots, readers)
    /\ UNCHANGED << started, latest, parseVars, parsedFiles, dashboardVars >>

\* analyzeCampaigns resolved: setAnalysis(result), setAppState(DASHBOARD).
\* The summary is known by what it was asked about.
AnalysisResolves ==
    /\ task.phase = "calling"
    /\ Len(task.data) # 0
    /\ analysis' = << [shots |-> task.data, fundamentals |-> task.fundamentals] >>
    /\ appState' = "DASHBOARD"
    /\ task' = IdleTask
    /\ called' = FALSE
    /\ UNCHANGED << shotPerformanceData, userFundamentals, metrics >>
    /\ Settle(TRUE, errors, uploadedStages, accumulatedShots, readers)
    /\ UNCHANGED << started, latest, parseVars, parsedFiles, dashboardVars >>

\* The catch branch of handleStartAnalysis, had it also dropped the shots.
AnalysisRejectsDropsShots ==
    /\ task.phase = "calling"
    /\ appState' = "UPLOAD"
    /\ shotPerformanceData' = << >>
    /\ task' = IdleTask
    /\ called' = FALSE
    /\ UNCHANGED << userFundamentals, analysis, metrics >>
    /\ Settle(TRUE, errors, uploadedStages, accumulatedShots, readers)
    /\ UNCHANGED << started, latest, parseVars, parsedFiles, dashboardVars >>

\* analyzeCampaigns rejected: setAppState(UPLOAD).
AnalysisRejects ==
    /\ task.phase = "calling"
    /\ appState' = "UPLOAD"
    /\ task' = IdleTask
    /\ called' = FALSE
    /\ UNCHANGED << shotPerformanceData, userFundamentals, analysis, metrics >>
    /\ Settle(TRUE, errors, uploadedStages, accumulatedShots, readers)
    /\ UNCHANGED << started, latest, parseVars, parsedFiles, dashboardVars >>

\* resetApp without its setAppState(AppState.LANDING).
ResetAppKeepsView ==
    /\ DashboardShown
    /\ shotPerformanceData' = << >>
    /\ userFundamentals' = ""
    /\ analysis' = << >>
    /\ metrics' = << >>
    /\ called' = FALSE
    /\ latest' = [s \in Stages |-> << >>]
    /\ UNCHANGED << appState, task >>
    /\ Settle(TRUE, errors, uploadedStages, accumulatedShots, readers)
    /\ UNCHANGED << started, parseVars, parsedFiles, dashboardVars >>

\* resetApp, the Dashboard's onReset.
ResetApp ==
    /\ DashboardShown
    /\ appState' = "LANDING"
    /\ shotPerformanceData' = << >>
    /\ userFundamentals' = ""
    /\ analysis' = << >>
    /\ metrics' = << >>
    /\ called' = FALSE
    /\ latest' = [s \in Stages |-> << >>]
    /\ UNCHANGED task
    /\ Settle(TRUE, errors, uploadedStages, accumulatedShots, readers)
    /\ UNCHANGED << started, parseVars, parsedFiles, dashboardVars >>

\* The app as composed.  The Remove / Re-upload button is not among the
\* steps: a zone shows it only once its upload has landed, and that upload
\* has then filled shotPerformanceData, so that App renders the zones no more
\* (RemoveNeverOffered).
Init ==
    /\ IdleParse /\ InitFileUpload /\ InitApp /\ InitHistory
    /\ parsedFiles = ParsedFiles
    /\ IdleDashboard

Next ==
    \/ GoUpload
    \/ \E stage \in Stages, file \in UploadFiles : HandleFiles(stage, file, TRUE)
    \/ \E i \in 1..MaxUploads : OnLoad(i, TRUE)
    \/ ResetData
    \/ \E text \in FundamentalsTexts : SetFundamentals(text)
    \/ StartAnalysis
    \/ DelayDone
    \/ AnalysisResolves
    \/ AnalysisRejects
    \/ ResetApp

Spec == Init /\ [][Next]_vars

\* The 800 ms timer of handleStartAnalysis fires: DelayDone, as the step
\* shows on the run itself.
TimerFires ==
    task.phase = "delay" /\ task' = [task EXCEPT !.phase = "calling"]

\* The app with its timer firing and its request settling: a pending timer
\* fires, and a pending call of analyzeCampaigns resolves or rejects.
SpecLive ==
    /\ Spec
    /\ WF_task(TimerFires)
    /\ WF_vars(AnalysisResolves \/ AnalysisRejects)

RemoveNeverOffered ==
    \A stage \in Stages : ~(Mounted(TRUE) /\ IsUploaded(stage))

\* ------------------------------------------------------------------ analyzeCampaigns alone

\* Array.from(new Set(items)): the distinct items in order of first occurrence.
RECURSIVE Distinct(_, _)
Distinct(items, seen) ==
    IF items = << >> THEN seen
    ELSE Distinct(Tail(items),
                  IF Head(items) \in SeqRange(seen) THEN seen
                  ELSE Append(seen, Head(items)))

AllPossibleStages == << "TOF", "MOF", "BOF" >>

\* uniqueFunnelStages
UniqueFunnelStages(data) ==
    LET Known(stage) == stage \in {"TOF", "MOF", "BOF"}
    IN SelectSeq(Distinct([i \in 1..Len(data) |-> data[i]["funnelStage"]], << >>),
                 Known)

\* A filter that looks at the first shot only.
MissingFunnelStagesOfFirst(data) ==
    LET Lacks(stage) == stage # data[1]["funnelStage"]
    IN SelectSeq(AllPossibleStages, Lacks)

\* missingFunnelStages
MissingFunnelStages(data) ==
    LET Lacks(stage) == stage \notin SeqRange(UniqueFunnelStages(data))
    IN SelectSeq(AllPossibleStages, Lacks)

\* allMetricNames
AllMetricNames(data) ==
    DOMAIN data[1] \ {"shotId", "startDate", "endDate", "funnelStage", "numDaysInShot"}

\* analyzeCampaigns(data, fundamentals) up to the request: the guards, and the
\* two stage lines of the prompt.  generateDetailedReport computes the same
\* two lists in the same way.
Analyze ==
    /\ task.phase = "idle"
    /\ task' = IF Len(shotPerformanceData) = 0
               THEN [phase |-> "thrown",
                     message |-> "No shot data provided for analysis."]
               ELSE IF AllMetricNames(shotPerformanceData) = {}
               THEN [phase |-> "thrown",
                     message |-> "No metrics found in the provided shot data for analysis."]
               ELSE [phase |-> "requested",
                     data |-> shotPerformanceData,
                     fundamentals |-> userFundamentals,
                     available |-> UniqueFunnelStages(shotPerformanceData),
                     missing |-> MissingFunnelStages(shotPerformanceData)]
    /\ UNCHANGED << appState, shotPerformanceData, userFundamentals, analysis, metrics >>
    /\ UNCHANGED << parseVars, uploadVars, historyVars, parsedFiles, dashboardVars >>

NextAnalyze == Analyze

SpecAnalyze == InitMetrics /\ [][NextAnalyze]_vars

\* ------------------------------------------------------------------ App, three-day files

\* The app as composed, with other files to upload: three days of the
\* template's columns (ad spend 150, 150, 150 and conversions 10, 12, 8), the
\* same with blank lines in between, and four days.
FileC == << TemplateHeader, DayA, DayB, DayC >>

FileCBlank == << TemplateHeader, BlankLine, DayA, DayB, BlankLine, DayC >>

ScenarioTexts == {FileC, FileCBlank, FileB}

ScenarioFiles ==
    [csv : {TRUE}, text : ScenarioTexts] \cup {[csv |-> FALSE, text |-> FileC]}

ParsedScenarioFiles ==
    {[text |-> text, stage |-> stage,
      recorded |-> Validate(Lines(text)).errs,
      result |-> ParseCSV(text, stage)] : text \in ScenarioTexts, stage \in Stages}

InitScenario ==
    /\ IdleParse /\ InitFileUpload /\ InitApp /\ InitHistory
    /\ parsedFiles = ParsedScenarioFiles
    /\ IdleDashboard

NextScenario ==
    \/ GoUpload
    \/ \E stage \in Stages, file \in ScenarioFiles : HandleFiles(stage, file, TRUE)
    \/ \E i \in 1..MaxUploads : OnLoad(i, TRUE)
    \/ ResetData
    \/ \E text \in FundamentalsTexts : SetFundamentals(text)
    \/ StartAnalysis
    \/ DelayDone
    \/ AnalysisResolves
    \/ AnalysisRejects
    \/ ResetApp

SpecScenario == InitScenario /\ [][NextScenario]_vars

\* ------------------------------------------------------------------ Dashboard

\* The tabs of the Dashboard.
Tabs == {"overview", "shotPerformance", "report", "roadmap"}

\* Bound on the generateDetailedReport calls in flight at once, and on the
\* generateMarketingRoadmap calls.
MaxRequests == 2

\* The report actions are rendered: the report tab is up and there is a
\* report.
ActionsMounted(tab, rep) == tab = "report" /\ rep # << >>

\* The printable-report element is rendered.
PrintableMounted(tab) == tab = "report"

\* The no-print elements of the document.
NoPrintMounted(tab, rep) ==
    {"header", "tabs"} \cup (IF ActionsMounted(tab, rep) THEN {"actions"} ELSE {})

\* The element is on screen: rendered and not hidden.
OnScreen(e) == e \in NoPrintMounted(activeTab, report) /\ display[e] = ""

\* The document after a render that leaves the styles at disp and the
\* download at p: when the report actions are not rendered their element is
\* gone, with its style; a later render makes a new one, which the node list
\* of a download under way does not hold.
Render(disp, p) ==
    IF ActionsMounted(activeTab', report')
    THEN display' = disp /\ pdf' = p
    ELSE /\ display' = [disp EXCEPT !["actions"] = ""]
         /\ pdf' = [p EXCEPT !.hidden = @ \ {"actions"}]

\* A tab button: setActiveTab(tab).  The roadmap button is rendered once
\* there is a report or a roadmap.
SetActiveTab(tab) ==
    /\ OnScreen("tabs")
    /\ tab # activeTab
    /\ tab = "roadmap" => (report # << >> \/ roadmap # << >>)
    /\ activeTab' = tab
    /\ UNCHANGED << report, roadmap, loadingReport, loadingRoadmap,
                    downloadingPdf, reportCalls, roadmapCalls, html2pdf >>
    /\ Render(display, pdf)
    /\ UNCHANGED << parseVars, uploadVars, appVars, historyVars, parsedFiles >>

\* handleGenerateReport up to its await; the button of the overview tab, or
\* the one of the report tab while there is no report.
GenerateReport ==
    /\ activeTab = "overview" \/ (activeTab = "report" /\ report = << >>)
    /\ reportCalls < MaxRequests
    /\ loadingReport' = TRUE
    /\ reportCalls' = reportCalls + 1
    /\ UNCHANGED << report, roadmap, loadingRoadmap, downloadingPdf, activeTab,
                    display, pdf, roadmapCalls, html2pdf >>
    /\ UNCHANGED << parseVars, uploadVars, appVars, historyVars, parsedFiles >>

\* generateDetailedReport resolved: setReport, setActiveTab('report'), and
\* the finally.
ReportResolves ==
    /\ reportCalls > 0
    /\ report' = << "report" >>
    /\ activeTab' = "report"
    /\ loadingReport' = FALSE
    /\ reportCalls' = reportCalls - 1
    /\ UNCHANGED << roadmap, loadingRoadmap, downloadingPdf, roadmapCalls, html2pdf >>
    /\ Render(display, pdf)
    /\ UNCHANGED << parseVars, uploadVars, appVars, historyVars, parsedFiles >>

\* generateDetailedReport rejected: the alert, and the finally.
ReportRejects ==
    /\ reportCalls > 0
    /\ loadingReport' = FALSE
    /\ reportCalls' = reportCalls - 1
    /\ UNCHANGED << report, roadmap, loadingRoadmap, downloadingPdf, activeTab,
                    display, pdf, roadmapCalls, html2pdf >>
    /\ UNCHANGED << parseVars, uploadVars, appVars, historyVars, parsedFiles >>

\* handleGenerateRoadmap up to its await; its button is among the report
\* actions.  Without a report it alerts and returns.
GenerateRoadmap ==
    /\ OnScreen("actions")
    /\ roadmapCalls < MaxRequests
    /\ IF report = << >>
       THEN UNCHANGED << loadingRoadmap, roadmapCalls >>
       ELSE /\ loadingRoadmap' = TRUE
            /\ roadmapCalls' = roadmapCalls + 1
    /\ UNCHANGED << report, roadmap, loadingReport, downloadingPdf, activeTab,
                    display, pdf, reportCalls, html2pdf >>
    /\ UNCHANGED << parseVars, uploadVars, appVars, historyVars, parsedFiles >>

\* generateMarketingRoadmap resolved: setRoadmap, setActiveTab('roadmap'),
\* and the finally.
RoadmapResolves ==
    /\ roadmapCalls > 0
    /\ roadmap' = << "roadmap" >>
    /\ activeTab' = "roadmap"
    /\ loadingRoadmap' = FALSE
    /\ roadmapCalls' = roadmapCalls - 1
    /\ UNCHANGED << report, loadingReport, downloadingPdf, reportCalls, html2pdf >>
    /\ Render(display, pdf)
    /\ UNCHANGED << parseVars, uploadVars, appVars, historyVars, parsedFiles >>

\* generateMarketingRoadmap rejected: the alert, and the finally.
RoadmapRejects ==
    /\ roadmapCalls > 0
    /\ loadingRoadmap' = FALSE
    /\ roadmapCalls' = roadmapCalls - 1
    /\ UNCHANGED << report, roadmap, loadingReport, downloadingPdf, activeTab,
                    display, pdf, reportCalls, html2pdf >>
    /\ UNCHANGED << parseVars, uploadVars, appVars, historyVars, parsedFiles >>

\* handleDownloadPdf up to its first await, or to its end where it returns
\* early (the finally then undoes setDownloadingPdf(true) within the same
\* update).  Its button is among the report actions, disabled while
\* downloadingPdf.
DownloadPdf ==
    /\ OnScreen("actions")
    /\ ~downloadingPdf
    /\ pdf.phase = "idle"
    /\ IF report = << >>
       THEN /\ pdf' = [phase |-> "idle", hidden |-> {}, outcome |-> "no report"]
            /\ UNCHANGED << downloadingPdf, display >>
       ELSE IF ~html2pdf
       THEN /\ pdf' = [phase |-> "idle", hidden |-> {}, outcome |-> "no library"]
            /\ UNCHANGED << downloadingPdf, display >>
       ELSE IF ~PrintableMounted(activeTab)
       THEN /\ pdf' = [phase |-> "idle", hidden |-> {}, outcome |-> "no element"]
            /\ UNCHANGED << downloadingPdf, display >>
       ELSE /\ downloadingPdf' = TRUE
            /\ display' = [e \in NoPrintElements |->
                             IF e \in NoPrintMounted(activeTab, report)
                             THEN "none" ELSE display[e]]
            /\ pdf' = [phase |-> "styles",
                       hidden |-> NoPrintMounted(activeTab, report),
                       outcome |-> "none"]
    /\ UNCHANGED << report, roadmap, loadingReport, loadingRoadmap, activeTab,
                    reportCalls, roadmapCalls, html2pdf >>
    /\ UNCHANGED << parseVars, uploadVars, appVars, historyVars, parsedFiles >>

\* handleDownloadPdf after the 100 ms timer: html2pdf is called.
StylesApplied ==
    /\ pdf.phase = "styles"
    /\ pdf' = [pdf EXCEPT !.phase = "rendering"]
    /\ UNCHANGED << report, roadmap, loadingReport, loadingRoadmap,
                    downloadingPdf, activeTab, display, reportCalls,
                    roadmapCalls, html2pdf >>
    /\ UNCHANGED << parseVars, uploadVars, appVars, historyVars, parsedFiles >>

\* html2pdf resolved: the elements of the node list get their display back,
\* then the finally.
PdfSaved ==
    /\ pdf.phase = "rendering"
    /\ display' = [e \in NoPrintElements |->
                     IF e \in pdf.hidden THEN "" ELSE display[e]]
    /\ downloadingPdf' = FALSE
    /\ pdf' = [pdf EXCEPT !.phase = "idle", !.outcome = "saved"]
    /\ UNCHANGED << report, roadmap, loadingReport, loadingRoadmap, activeTab,
                    reportCalls, roadmapCalls, html2pdf >>
    /\ UNCHANGED << parseVars, uploadVars, appVars, historyVars, parsedFiles >>

\* html2pdf threw or rejected: the catch alerts, then the finally.
PdfFails ==
    /\ pdf.phase = "rendering"
    /\ downloadingPdf' = FALSE
    /\ pdf' = [pdf EXCEPT !.phase = "idle", !.outcome = "failed"]
    /\ UNCHANGED << report, roadmap, loadingReport, loadingRoadmap, activeTab,
                    display, reportCalls, roadmapCalls, html2pdf >>
    /\ UNCHANGED << parseVars, uploadVars, appVars, historyVars, parsedFiles >>

\* The Dashboard alone, over the analysis of a three-day file; the html2pdf
\* script of the page has loaded or has not.
InitDashboard ==
    /\ IdleParse /\ InitFileUpload /\ InitHistory
    /\ parsedFiles = {}
    /\ appState = "DASHBOARD"
    /\ shotPerformanceData = ParseCSV(FileB, "TOF").shots
    /\ userFundamentals = "D2C brand"
    /\ analysis = << [shots |-> shotPerformanceData,
                      fundamentals |-> userFundamentals] >>
    /\ metrics = << CalculateMetrics(shotPerformanceData) >>
    /\ task = IdleTask
    /\ MountDashboard
    /\ html2pdf \in BOOLEAN

NextDashboard ==
    \/ \E tab \in Tabs : SetActiveTab(tab)
    \/ GenerateReport
    \/ ReportResolves
    \/ ReportRejects
    \/ GenerateRoadmap
    \/ RoadmapResolves
    \/ RoadmapRejects
    \/ DownloadPdf
    \/ StylesApplied
    \/ PdfSaved
    \/ PdfFails

SpecDashboard == InitDashboard /\ [][NextDashboard]_vars

\* ------------------------------------------------------------------ claims on parseCSV

\* The header row passed the checks that throw at once.
HeaderAccepted(text) ==
    LET lines == Lines(text)
    IN /\ Len(lines) >= 2
       /\ ToUpperCase(Trim(lines[1][1])) = "DATE"
       /\ Len(lines[1]) >= 2

\* The valid daily rows of an upload as the specification describes them: the
\* data lines with the header's number of fields and at least one numeric
\* metric field, in input order.
DailyRows(text) ==
    LET lines == Lines(text)
        IsDaily(line) ==
            /\ Len(line) = Len(lines[1])
            /\ \E j \in 2..Len(line) : ~ParseFloat(Trim(line[j])).nan
    IN SelectSeq(Tail(lines), IsDaily)

\* The stored value of field j of a data line.
FieldValue(line, j) ==
    LET p == ParseFloat(Trim(line[j])) IN IF p.nan THEN Zero ELSE p.val

RECURSIVE SumField(_, _, _, _)
SumField(rows, lo, hi, j) ==
    IF lo > hi THEN Zero
    ELSE RAdd(FieldValue(rows[lo], j), SumField(rows, lo + 1, hi, j))

RECURSIVE SumDays(_)
SumDays(shots) ==
    IF shots = << >> THEN 0
    ELSE Head(shots)["numDaysInShot"] + SumDays(Tail(shots))

CeilDiv(n, k) == (n + k - 1) \div k

\* C1: a successful parse of n >= 1 valid daily rows gives exactly ceil(n/3)
\* shots; every shot but the last has numDaysInShot = 3, the last has 1, 2 or
\* 3, and the numDaysInShot values sum to n.
C1_ShotCount ==
    (parseDone /\ parsed.ok) =>
        LET n == Len(DailyRows(csvText))
            shots == parsed.shots
        IN /\ n >= 1
           /\ Len(shots) = CeilDiv(n, 3)
           /\ \A k \in 1..(Len(shots) - 1) : shots[k]["numDaysInShot"] = 3
           /\ shots[Len(shots)]["numDaysInShot"] \in 1..3
           /\ SumDays(shots) = n

\* C1 witness: four valid rows gave two shots, the second with one day.
C1_Witness ==
    /\ parseDone /\ parsed.ok
    /\ Len(DailyRows(csvText)) = 4
    /\ Len(parsed.shots) = 2
    /\ parsed.shots[2]["numDaysInShot"] = 1

\* C2: the k-th shot aggregates exactly the daily records at positions
\* 3(k-1)+1 .. min(3k, n): every metric is the mean of that metric over those
\* records, startDate and endDate are the dates of the first and the last of
\* them, and the windows cover 1..n, each record once, in input order.
C2_ShotWindows ==
    (parseDone /\ parsed.ok) =>
        LET rows == DailyRows(csvText)
            header == Lines(csvText)[1]
            n == Len(rows)
            shots == parsed.shots
        IN /\ 3 * (Len(shots) - 1) < n /\ n <= 3 * Len(shots)
           /\ \A k \in 1..Len(shots) :
                LET lo == 3 * (k - 1) + 1
                    hi == Min(3 * k, n)
                IN /\ shots[k]["numDaysInShot"] = hi - lo + 1
                   /\ shots[k]["startDate"] = Trim(rows[lo][1])
                   /\ shots[k]["endDate"] = Trim(rows[hi][1])
                   /\ \A j \in 2..Len(header) :
                        RMul(shots[k][Trim(header[j])], Num(hi - lo + 1))
                            = SumField(rows, lo, hi, j)

\* C2 witness: five valid rows, not all alike, whose second shot is the mean
\* of rows 4 and 5.
C2_Witness ==
    /\ parseDone /\ parsed.ok
    /\ Len(DailyRows(csvText)) = 5
    /\ DailyRows(csvText)[4] # DailyRows(csvText)[5]
    /\ Len(parsed.shots) = 2
    /\ parsed.shots[2]["startDate"] # parsed.shots[2]["endDate"]
    /\ parsed.shots[2]["CPM"] = Rat(3, 2)

\* The validation errors recorded during the parse of a file whose header row
\* was accepted.
Recorded(text) == Validate(Lines(text)).errs

\* C9: when n >= 1 validation errors were recorded, the failure carries
\* exactly the first min(n, 5) of them in the order recorded, and an overflow
\* line giving n - 5 is present exactly when n > 5.
C9_ErrorCap ==
    (parseDone /\ HeaderAccepted(csvText) /\ Len(Recorded(csvText)) >= 1) =>
        LET errs == Recorded(csvText)
            n == Len(errs)
            kept == Min(n, 5)
        IN /\ ~parsed.ok
           /\ Len(parsed.message) = kept + (IF n > 5 THEN 1 ELSE 0)
           /\ SubSeq(parsed.message, 1, kept) = SubSeq(errs, 1, kept)
           /\ n > 5 => parsed.message[kept + 1]
                        = "...and " \o ToString(n - 5) \o " more errors."

\* C9 witness: six errors were recorded; the failure has five of them and the
\* overflow line.
C9_Witness ==
    /\ parseDone /\ HeaderAccepted(csvText)
    /\ Len(Recorded(csvText)) = 6
    /\ Len(parsed.message) = 6
    /\ parsed.message[6] = "...and 1 more errors."

\* The metric fields of the data lines that are non-empty and not numeric:
\* << line, column >> positions in Lines(text).
TextFields(text) ==
    LET lines == Lines(text)
    IN {rc \in (2..Len(lines)) \X (2..Len(lines[1])) :
            /\ rc[2] <= Len(lines[rc[1]])
            /\ Trim(lines[rc[1]][rc[2]]) # ""
            /\ ParseFloat(Trim(lines[rc[1]][rc[2]])).nan}

\* The file whose field rc is replaced by "0".
Repaired(text, rc) ==
    LET lines == Lines(text)
    IN [lines EXCEPT ![rc[1]] = [@ EXCEPT ![rc[2]] = "0"]]

\* The only problem of the upload is one non-empty, non-numeric metric field:
\* with that field made numeric the upload parses.
OnlyOneTextField(text, stage) ==
    /\ HeaderAccepted(text)
    /\ Cardinality(TextFields(text)) = 1
    /\ \A rc \in TextFields(text) : ParseCSV(Repaired(text, rc), stage).ok

Lands(i) == ParsedUpload(readers[i].text, readers[i].stage).result.ok

\* What it parses to.
Landed(i) == ParsedUpload(readers[i].text, readers[i].stage).result.shots

Populated(shots) == {s \in Stages : StageShots(shots, s) # << >>}

\* C3: a successful upload for a stage that already holds shots leaves
\* exactly the new upload's shots for that stage and every other stage's
\* shots as they were.
C3_ReplaceInFull ==
    [][\A i \in 1..MaxUploads :
          (/\ OnLoad(i, FALSE)
           /\ Lands(i)
           /\ StageShots(accumulatedShots, readers[i].stage) # << >>)
          => /\ StageShots(accumulatedShots', readers[i].stage) = Landed(i)
             /\ \A t \in Stages \ {readers[i].stage} :
                   StageShots(accumulatedShots', t) = StageShots(accumulatedShots, t)]_vars

\* C4: in the composed app, when uploads for two different stages have both
\* succeeded since the last reset, shotPerformanceData holds the shots of
\* both.
C4_BothStagesHeld ==
    \A s, t \in Stages :
        (s # t /\ latest[s] # << >> /\ latest[t] # << >>)
        => /\ StageShots(shotPerformanceData, s) = latest[s]
           /\ StageShots(shotPerformanceData, t) = latest[t]

\* C5: when a successful upload lands, the accumulated set and the set
\* passed to onDataLoaded hold its shots and the shots of every other stage
\* whose upload landed while this read was pending.
C5_NoLostUpdate ==
    [][\A i \in 1..MaxUploads :
          (OnLoad(i, FALSE) /\ Lands(i))
          => \A s \in readers[i].raced \cup {readers[i].stage} :
                /\ StageShots(accumulatedShots', s) = latest'[s]
                /\ StageShots(shotPerformanceData', s) = latest'[s]]_vars

\* C6: Remove / Re-upload for a stage drops exactly that stage's shots,
\* marks the stage not uploaded, passes the reduced set to onDataLoaded and
\* leaves the other stages' shots and flags (and all error messages) alone.
C6_RemoveFrame ==
    [][\A s \in Stages :
          Remove(s, FALSE)
          => /\ StageShots(accumulatedShots', s) = << >>
             /\ Len(accumulatedShots') =
                    Len(accumulatedShots) - Len(StageShots(accumulatedShots, s))
             /\ s \in DOMAIN uploadedStages' /\ ~uploadedStages'[s]
             /\ called' /\ shotPerformanceData' = accumulatedShots'
             /\ errors' = errors
             /\ \A t \in Stages \ {s} :
                   /\ StageShots(accumulatedShots', t) = StageShots(accumulatedShots, t)
                   /\ (t \in DOMAIN uploadedStages') = (t \in DOMAIN uploadedStages)
                   /\ t \in DOMAIN uploadedStages => uploadedStages'[t] = uploadedStages[t]]_vars

\* A stage has been removed while another stage keeps its shots.
C6_Witness ==
    /\ called
    /\ shotPerformanceData = accumulatedShots
    /\ \E s, t \in Stages :
          /\ s \in DOMAIN uploadedStages /\ ~uploadedStages[s]
          /\ StageShots(accumulatedShots, s) = << >>
          /\ IsUploaded(t)
          /\ Len(StageShots(accumulatedShots, t)) = 2

\* The shots of one stage are those of one upload, numbered from 1.
SingleUpload(shots, S) ==
    LET ss == StageShots(shots, S)
    IN /\ \A k \in 1..Len(ss) : ss[k]["shotId"] = ShotId(S, k)
       /\ ss = << >> \/ \E text \in UploadTexts : ss = ParsedUpload(text, S).result.shots

\* C7: for each stage the accumulated shots of that stage come from a single
\* upload, with shotIds S-Shot 1 .. S-Shot N in order, and no shotId occurs
\* twice in the whole set.
C7_OneUploadPerStage ==
    /\ \A S \in Stages : SingleUpload(accumulatedShots, S)
    /\ \A i, j \in 1..Len(accumulatedShots) :
          i # j => accumulatedShots[i]["shotId"] # accumulatedShots[j]["shotId"]

\* All uploads of the run have landed without an error or a removal, and two
\* stages hold shots, one of them two shots.
C7_Witness ==
    /\ started = MaxUploads /\ readers = << >>
    /\ \A s \in DOMAIN errors : errors[s] = << >>
    /\ \A s \in DOMAIN uploadedStages : uploadedStages[s]
    /\ \E s, t \in Stages :
          /\ s # t
          /\ Populated(accumulatedShots) = {s, t}
          /\ Len(StageShots(accumulatedShots, s)) = 2

\* C8: an upload with a recorded validation error produces no shot, does not
\* call onDataLoaded, leaves the accumulated shots and the uploaded flags as
\* they were, and sets only the uploading stage's error message.
C8_ErrorsBlock ==
    [][\A i \in 1..MaxUploads :
          (/\ OnLoad(i, FALSE)
           /\ ParsedUpload(readers[i].text, readers[i].stage).recorded # << >>)
          => /\ ~Lands(i) /\ Landed(i) = << >>
             /\ ~called'
             /\ shotPerformanceData' = shotPerformanceData
             /\ accumulatedShots' = accumulatedShots
             /\ uploadedStages' = uploadedStages
             /\ errors'[readers[i].stage] # << >>
             /\ errors'[readers[i].stage] =
                    ErrorMsg(ParsedUpload(readers[i].text, readers[i].stage).recorded)
             /\ \A t \in Stages \ {readers[i].stage} :
                   /\ (t \in DOMAIN errors') = (t \in DOMAIN errors)
                   /\ t \in DOMAIN errors => errors'[t] = errors[t]]_vars

\* A failed upload has left its message while two other uploads stand.
C8_Witness ==
    /\ ~called /\ readers = << >> /\ started = MaxUploads
    /\ \E s \in Stages :
          /\ s \in DOMAIN errors
          /\ errors[s] = ErrorMsg(Recorded(FileBad))
          /\ IsUploaded(s)
          /\ Cardinality(Populated(accumulatedShots)) = 2

\* ------------------------------------------------------------------ claims on the fields and the header

\* The fields of the vocabulary that are, as a whole, the text of a number.
NumberTexts ==
    {"0", "1", "2", "3", "4", "8", "10", "12", "150", "150.00", "-1", "0.5", "1e1",
     "0.1", "0.2", "0.3"}

\* The data lines that reach the field loop: not all-empty, and with the
\* header's number of fields.
FieldRows(text) ==
    LET lines == Lines(text)
        Reaches(line) ==
            /\ \E j \in 1..Len(line) : Trim(line[j]) # ""
            /\ Len(line) = Len(lines[1])
    IN SelectSeq(Tail(lines), Reaches)

\* dailyEntry, the errors pushed and rowHasValidMetricData after the field
\* loop over one data line.
FieldLoop(text, line) ==
    ParseCells(Tail(Parts(Lines(text)[1])), Parts(line), 0,
               [entry |-> ("date" :> Trim(line[1])), errs |-> << >>,
                valid |-> FALSE])

Count(s, x) == Cardinality({i \in 1..Len(s) : s[i] = x})

\* C11: in every data row with the header's column count, for every metric
\* column, a non-empty field that is not the text of a number is stored as 0
\* with exactly one type error for that date and column (and the parse
\* fails), an empty field is stored as 0 without an error, and a numeric
\* field is stored as its value without an error.
C11_FieldParsing ==
    (parseDone /\ HeaderAccepted(csvText)) =>
        LET header == Parts(Lines(csvText)[1])
            rows == FieldRows(csvText)
        IN \A r \in 1..Len(rows) : \A j \in 2..Len(header) :
              LET field == Trim(rows[r][j])
                  out == FieldLoop(csvText, rows[r])
                  msg == TypeMsg(Trim(rows[r][1]), header[j], field)
              IN IF field = ""
                 THEN out.entry[header[j]] = Zero /\ Count(out.errs, msg) = 0
                 ELSE IF field \in NumberTexts
                 THEN /\ out.entry[header[j]] = FloatOf[field]
                      /\ Count(out.errs, msg) = 0
                 ELSE /\ out.entry[header[j]] = Zero
                      /\ Count(out.errs, msg) = 1
                      /\ Count(Recorded(csvText), msg) >= 1
                      /\ ~parsed.ok

\* The names under which the plausibility rules are stated.
RuleNames ==
    {"Ad spent", "Conversions", "LINK CLICKS", "REACH", "CTR", "ROAS",
     "AD FREQUENCY"}

\* The column of the header whose name is name, letter case apart.
ColumnOf(header, name) ==
    CHOOSE j \in 2..Len(header) : ToLowerCase(header[j]) = ToLowerCase(name)

\* The values of a data line that the rules are about, whatever the letter
\* case of the header.
RuleDay(header, line) ==
    ("date" :> Trim(line[1]))
        @@ [name \in RuleNames |-> FieldValue(line, ColumnOf(header, name))]

\* The header has every required metric name, letter case apart.
RequiredPresent(text) ==
    HeaderAccepted(text) /\ MissingRequired(Tail(Parts(Lines(text)[1]))) = << >>

\* C12: under any header accepted by the required-column check, whatever the
\* letter case of its metric names, a daily row that breaks a plausibility
\* rule (negative ad spend, conversions, link clicks, reach, ad frequency or
\* ROAS, CTR outside [0, 1], link clicks above reach with both positive)
\* makes the parse fail with the range error naming that row's date.
C12_RulesUnderAnyCase ==
    (parseDone /\ RequiredPresent(csvText)) =>
        LET header == Parts(Lines(csvText)[1])
            rows == DailyRows(csvText)
        IN \A r \in 1..Len(rows) :
              LET expected == RangeErrors(RuleDay(header, rows[r]))
              IN \A k \in 1..Len(expected) :
                    /\ ~parsed.ok
                    /\ Count(Recorded(csvText), expected[k]) >= 1

\* C13: after a successful parse every metric value of every daily record
\* is non-negative, and so is every metric of every shot.
C13_NonNegative ==
    (parseDone /\ parsed.ok) =>
        LET header == Parts(Lines(csvText)[1])
            rows == DailyRows(csvText)
        IN /\ \A r \in 1..Len(rows) : \A j \in 2..Len(header) :
                ~RLt(FieldValue(rows[r], j), Zero)
           /\ \A k \in 1..Len(parsed.shots) : \A j \in 2..Len(header) :
                ~RLt(parsed.shots[k][header[j]], Zero)

\* The required names that no header column has, letter case apart, in the
\* order of the required list.
Lacking(text) ==
    LET header == Parts(Lines(text)[1])
        Absent(req) == \A j \in 2..Len(header) : ToLowerCase(header[j]) # req
    IN SelectSeq(RequiredMetricNames, Absent)

\* C14 as stated: whenever the header of a file with a data line lacks
\* required metric names, the parse fails and the failure names every one of
\* them.
C14_Original ==
    (parseDone /\ Len(Lines(csvText)) >= 2 /\ Lacking(csvText) # << >>) =>
        /\ ~parsed.ok
        /\ parsed.message[1] = MissingRequiredMsg(Lacking(csvText))

\* C14 amended: when the first column header is DATE and a metric column is
\* present, a header lacking required metric names makes the parse fail, and
\* the first line of the failure names every missing column, for every
\* subset of missing columns and whatever the data lines hold.
C14_AllMissingNamed ==
    (parseDone /\ HeaderAccepted(csvText) /\ Lacking(csvText) # << >>) =>
        /\ ~parsed.ok
        /\ parsed.message[1] = MissingRequiredMsg(Lacking(csvText))

\* C14 witness: five scattered columns are missing and the failure, cut at
\* the error limit, still opens with the line that names them.
C14_Witness ==
    /\ parseDone /\ HeaderAccepted(csvText)
    /\ Lacking(csvText) = << "cpm", "reach", "conversions", "cpa", "ad frequency" >>
    /\ Len(parsed.message) = ErrorLimit + 1
    /\ parsed.message[1] =
          "Missing required columns in header: Cpm, Reach, Conversions, Cpa, Ad frequency. Please ensure they are present."

\* The header row of a file with a data line is in error: its first column
\* is not DATE, or a required metric name is missing.
HeaderInError(text) ==
    /\ Len(Lines(text)) >= 2
    /\ \/ ToUpperCase(Trim(Lines(text)[1][1])) # "DATE"
       \/ Lacking(text) # << >>

\* C15: a header error is fatal at once: the failure is the header error
\* alone, with no row-level error after it and no overflow line.
C15_HeaderErrorFatal ==
    (parseDone /\ HeaderInError(csvText)) =>
        /\ ~parsed.ok
        /\ Len(parsed.message) = 1
        /\ parsed.message[1] \in
              {"Invalid CSV header. Expected 'DATE' as the first column header.",
               "No metric columns found in the header row.",
               MissingRequiredMsg(Lacking(csvText))}

\* The daily records kept by the parse of a file whose header row was
\* accepted.
Kept(text) == Validate(Lines(text)).daily

\* C16: the daily records are exactly the data rows with at least one field
\* read as a number, in input order, each with its date and its values; and
\* when there is no such row and no validation error was recorded, the parse
\* fails with the empty-data error and produces no shot.
C16_EmptyData ==
    (parseDone /\ HeaderAccepted(csvText)) =>
        LET header == Parts(Lines(csvText)[1])
            rows == DailyRows(csvText)
            kept == Kept(csvText)
        IN /\ Len(kept) = Len(rows)
           /\ \A k \in 1..Len(rows) :
                /\ kept[k]["date"] = Trim(rows[k][1])
                /\ \A j \in 2..Len(header) :
                      kept[k][header[j]] = FieldValue(rows[k], j)
           /\ (rows = << >> /\ Recorded(csvText) = << >>) =>
                /\ ~parsed.ok
                /\ parsed.shots = << >>
                /\ parsed.message =
                      << "No valid daily performance data rows could be parsed." >>

\* C16 witness: a file whose data lines have a date and no numeric field
\* failed with the empty-data error.
C16_Witness ==
    /\ parseDone /\ HeaderAccepted(csvText)
    /\ Len(Lines(csvText)) = 3
    /\ \A r \in 2..3 : Lines(csvText)[r] = RowNoMetrics
    /\ DailyRows(csvText) = << >> /\ Recorded(csvText) = << >>
    /\ parsed.message = << "No valid daily performance data rows could be parsed." >>

\* ------------------------------------------------------------------ claims on calculateMetrics

TotalFields ==
    ("totalAdSpent" :> "Ad spent") @@ ("totalConversions" :> "Conversions")
        @@ ("totalLinkClicks" :> "LINK CLICKS") @@ ("totalReach" :> "REACH")
        @@ ("totalLPViews" :> "Landing page views")
        @@ ("totalATCs" :> "Add to carts")
        @@ ("totalICs" :> "initiate checkout")

AverageFields ==
    ("avgCPM" :> "CPM") @@ ("avgCTR" :> "CTR") @@ ("avgROAS" :> "ROAS")
        @@ ("avgCPA" :> "CPA") @@ ("avgAdFrequency" :> "AD FREQUENCY")

MetricsFields ==
    DOMAIN TotalFields \cup DOMAIN AverageFields \cup {"cpc", "totalImpressions"}

\* calculateMetrics has run on shotPerformanceData.
Calculated == metrics # << >> /\ task = IdleTask /\ appState = "LANDING"

\* The sum over the shots of value(shot), in the order of the sequence.
SumOver(data, value(_)) ==
    LET Partial[i \in 0..Len(data)] ==
            IF i = 0 THEN Zero ELSE RAdd(Partial[i - 1], value(data[i]))
    IN Partial[Len(data)]

\* The shot has the value v under key.
Has(shot, key, v) == key \in DOMAIN shot /\ shot[key] = v

\* a / b for any b other than 0.
Quotient(a, b) ==
    IF b.n > 0 THEN Rat(a.n * b.d, a.d * b.n)
    ELSE Rat(-(a.n * b.d), -(a.d * b.n))

\* C17: on the empty shot sequence calculateMetrics returns the fourteen
\* fields, all 0 (none the result of a division by zero).
C17_EmptyAllZero ==
    (Calculated /\ shotPerformanceData = << >>) =>
        /\ DOMAIN metrics[1] = MetricsFields
        /\ Cardinality(MetricsFields) = 14
        /\ \A f \in MetricsFields : metrics[1][f] = Zero

\* C17 witness: calculateMetrics has run on no shots.
C17_Witness ==
    /\ Calculated /\ shotPerformanceData = << >>
    /\ metrics[1]["cpc"] = Zero /\ metrics[1]["avgCPM"] = Zero

\* C18: each total is the sum over the shots of the shot's value times the
\* shot's numDaysInShot, a shot without numDaysInShot counting as 3 days.
C18_TotalsWeighted ==
    Calculated =>
        \A f \in DOMAIN TotalFields :
            LET Weighted(shot) ==
                    RMul(IF TotalFields[f] \in DOMAIN shot
                         THEN shot[TotalFields[f]] ELSE Zero,
                         Num(IF "numDaysInShot" \in DOMAIN shot
                             THEN shot["numDaysInShot"] ELSE 3))
            IN metrics[1][f] = SumOver(shotPerformanceData, Weighted)

\* C18 witness: totals over a one-day shot, a three-day shot and a shot
\* without numDaysInShot.
C18_Witness ==
    /\ Calculated /\ Len(shotPerformanceData) = 3
    /\ "numDaysInShot" \notin DOMAIN shotPerformanceData[1]
    /\ Has(shotPerformanceData[2], "numDaysInShot", 1)
    /\ Has(shotPerformanceData[3], "numDaysInShot", 3)
    /\ RLt(Zero, metrics[1]["totalAdSpent"])

\* C19: on a non-empty sequence each average is the sum of the shots' values
\* divided by the number of shots, whatever the shots' numDaysInShot.
C19_AveragesUnweighted ==
    (Calculated /\ shotPerformanceData # << >>) =>
        \A f \in DOMAIN AverageFields :
            LET Plain(shot) ==
                    IF AverageFields[f] \in DOMAIN shot
                    THEN shot[AverageFields[f]] ELSE Zero
            IN RMul(metrics[1][f], Num(Len(shotPerformanceData)))
                  = SumOver(shotPerformanceData, Plain)

\* C19 witness: a three-day shot with CPM 4/3 and a one-day shot with CPM 2
\* give avgCPM 5/3 (weighted by days it would be 3/2).
C19_Witness ==
    /\ Calculated /\ Len(shotPerformanceData) = 2
    /\ Has(shotPerformanceData[1], "numDaysInShot", 3)
    /\ Has(shotPerformanceData[2], "numDaysInShot", 1)
    /\ Has(shotPerformanceData[1], "CPM", Rat(4, 3))
    /\ Has(shotPerformanceData[2], "CPM", Num(2))
    /\ metrics[1]["avgCPM"] = Rat(5, 3)

\* C20: cpc is total ad spend over total link clicks, and 0 when total link
\* clicks is 0; totalImpressions is total ad spend over average CPM times
\* 1000, and 0 when average CPM or total ad spend is 0; both are numbers (no
\* division by zero).
C20_Derived ==
    Calculated =>
        LET m == metrics[1]
        IN /\ m["cpc"].d > 0 /\ m["totalImpressions"].d > 0
           /\ m["cpc"] =
                IF m["totalLinkClicks"] = Zero THEN Zero
                ELSE Quotient(m["totalAdSpent"], m["totalLinkClicks"])
           /\ m["totalImpressions"] =
                IF m["avgCPM"] = Zero \/ m["totalAdSpent"] = Zero THEN Zero
                ELSE RMul(Quotient(m["totalAdSpent"], m["avgCPM"]), Num(1000))

\* ------------------------------------------------------------------ claims on the reduction

\* The rearrangements of a sequence.
Rearrangements(data) ==
    LET n == Len(data)
    IN {[i \in 1..n |-> data[p[i]]] :
            p \in {q \in [1..n -> 1..n] : \A i, j \in 1..n : q[i] = q[j] => i = j}}

\* Every shot's value under key has a known double.
AllBinary64(data, key) == \A i \in 1..Len(data) : IsBinary64(Get(data[i], key))

\* Every shot's value under key is a natural.
AllNatural(data, key) ==
    \A i \in 1..Len(data) : Get(data[i], key).d = 1 /\ Get(data[i], key).n >= 0

\* The state other than metrics is as it was.
MetricsFrame ==
    /\ shotPerformanceData' = shotPerformanceData
    /\ appState' = appState /\ userFundamentals' = userFundamentals
    /\ analysis' = analysis /\ task' = task
    /\ UNCHANGED << parseVars, uploadVars, historyVars >>

\* C21 as stated: calculateMetrics on any permutation of the shot sequence
\* yields identical AggregatedMetrics, the totals as the engine adds them
\* included.
C21_Original ==
    Calculated =>
        \A q \in Rearrangements(shotPerformanceData) :
            /\ CalculateMetrics(q) = metrics[1]
            /\ AllBinary64(shotPerformanceData, "Ad spent") =>
                  TotalOfBinary64(q, "Ad spent")
                      = TotalOfBinary64(shotPerformanceData, "Ad spent")

\* C21, amended: a call of calculateMetrics changes neither the shots nor any
\* other app state; on every permutation of the shot sequence it yields the
\* same AggregatedMetrics when the sums are taken exactly, and the same total
\* in the engine's arithmetic when the shots' values are naturals.
C21_PureReduction ==
    /\ [](Calculated =>
            \A q \in Rearrangements(shotPerformanceData) :
                /\ CalculateMetrics(q) = metrics[1]
                /\ AllNatural(shotPerformanceData, "Ad spent") =>
                      TotalOfBinary64(q, "Ad spent")
                          = TotalOfBinary64(shotPerformanceData, "Ad spent"))
    /\ [][metrics' # metrics => MetricsFrame]_vars

\* C21 witness: calculateMetrics has run on three shots of which the first
\* two differ in their days and in their values, and gives what it gives on
\* the sequence with these two exchanged.
C21_Witness ==
    /\ Calculated /\ Len(shotPerformanceData) = 3
    /\ DaysOf(shotPerformanceData[1]) # DaysOf(shotPerformanceData[2])
    /\ Get(shotPerformanceData[1], "Ad spent") # Get(shotPerformanceData[2], "Ad spent")
    /\ Get(shotPerformanceData[1], "CPM") # Get(shotPerformanceData[2], "CPM")
    /\ metrics[1] = CalculateMetrics(<< shotPerformanceData[2], shotPerformanceData[1],
                                        shotPerformanceData[3] >>)

\* ------------------------------------------------------------------ claims on the scenario

\* The position of a column of the template.
TemplateColumn(name) == CHOOSE j \in 1..Len(TemplateHeader) : TemplateHeader[j] = name

\* The file of the scenario: the template's header and three valid data rows
\* with ad spend 150, 150, 150 and conversions 10, 12, 8.
IsScenario(text) ==
    /\ Len(Lines(text)) = 4
    /\ Parts(Lines(text)[1]) = TemplateHeader
    /\ Len(DailyRows(text)) = 3
    /\ \A i \in 1..3 :
          FieldValue(DailyRows(text)[i], TemplateColumn("Ad spent")) = Num(150)
    /\ [i \in 1..3 |-> FieldValue(DailyRows(text)[i], TemplateColumn("Conversions"))]
          = << Num(10), Num(12), Num(8) >>

\* The only upload of the run, to the TOF zone, is being read and it is the
\* scenario's file.
ScenarioRead ==
    /\ started = 1 /\ Len(readers) = 1
    /\ readers[1].stage = "TOF" /\ IsScenario(readers[1].text)

\* The only upload of the run has been read and the app holds what parseCSV
\* made of the scenario's file.
ScenarioHeld ==
    /\ started = 1 /\ readers = << >> /\ shotPerformanceData # << >>
    /\ \E u \in parsedFiles :
          /\ u.stage = "TOF" /\ IsScenario(u.text)
          /\ shotPerformanceData = u.result.shots

\* The shot of the scenario.
ScenarioShot(shots) ==
    /\ Len(shots) = 1
    /\ shots[1]["funnelStage"] = "TOF"
    /\ shots[1]["numDaysInShot"] = 3
    /\ shots[1]["Ad spent"] = Num(150)

\* metrics has the given totals.
ScenarioTotals(adSpent, conversions) ==
    (ScenarioHeld /\ metrics # << >>) =>
        /\ metrics[1]["totalAdSpent"] = Num(adSpent)
        /\ metrics[1]["totalConversions"] = Num(conversions)

\* C22 as stated: the scenario's upload yields exactly one shot of three days
\* with ad-spend average 150, and the metrics have total ad spend 450 and
\* total conversions 90.
C22_Original ==
    /\ [][(ScenarioRead /\ readers' = << >>) => ScenarioShot(shotPerformanceData')]_vars
    /\ []ScenarioTotals(450, 90)

\* C22, amended: the scenario's upload yields exactly one shot of three days
\* with ad-spend average 150, and the metrics have total ad spend 450 and
\* total conversions 30.
C22_Scenario ==
    /\ [][(ScenarioRead /\ readers' = << >>) => ScenarioShot(shotPerformanceData')]_vars
    /\ []ScenarioTotals(450, 30)

\* C22 witness: the Dashboard is shown for the scenario's upload.
C22_Witness ==
    /\ ScenarioHeld /\ ScenarioShot(shotPerformanceData)
    /\ appState = "DASHBOARD" /\ metrics # << >>
    /\ metrics[1]["totalAdSpent"] = Num(450)

\* ------------------------------------------------------------------ claims on analyzeCampaigns

\* C23: for every non-empty shot set handed over, the missing stages named in
\* the request are exactly the stages among TOF, MOF, BOF without a shot in
\* the set; available and missing stages are disjoint and together are
\* {TOF, MOF, BOF}.
C23_MissingStages ==
    (task.phase # "idle" /\ shotPerformanceData # << >>) =>
        /\ task.phase = "requested"
        /\ SeqRange(task.missing)
              = {stage \in {"TOF", "MOF", "BOF"} :
                    \A i \in 1..Len(shotPerformanceData) :
                        shotPerformanceData[i]["funnelStage"] # stage}
        /\ SeqRange(task.available) \cap SeqRange(task.missing) = {}
        /\ SeqRange(task.available) \cup SeqRange(task.missing) = {"TOF", "MOF", "BOF"}

\* C23 witness: a request for a BOF shot followed by two TOF shots names MOF
\* as the one missing stage.
C23_Witness ==
    /\ task.phase = "requested" /\ Len(shotPerformanceData) = 3
    /\ shotPerformanceData[1]["funnelStage"] = "BOF"
    /\ shotPerformanceData[2]["funnelStage"] = "TOF"
    /\ shotPerformanceData[3]["funnelStage"] = "TOF"
    /\ task.missing = << "MOF" >> /\ task.available = << "BOF", "TOF" >>

\* ------------------------------------------------------------------ claims on the row shape

\* The positions in the uploaded text (header = 1) of the data rows whose
\* number of fields differs from the header's; rows of empty fields only are
\* skipped like blank lines.
ShortRows(text) ==
    {k \in 2..Len(text) :
        /\ NotBlankLine(text[k])
        /\ \E j \in 1..Len(text[k]) : Trim(text[k][j]) # ""
        /\ Len(text[k]) # Len(text[1])}

\* What the claim says of a file: every such row records one error with the
\* expected and the actual column count and its position in the text, none of
\* them becomes a daily record, and the rows after it are still examined
\* (their field errors are recorded).
RowShapeRule(text) ==
    /\ \A k \in ShortRows(text) :
          /\ Count(Recorded(text), RowShapeMsg(k - 2, Len(text[1]), Len(text[k]))) = 1
          /\ \A m \in (k + 1)..Len(text) :
                (NotBlankLine(text[m]) /\ Len(text[m]) = Len(text[1])) =>
                    \A e \in SeqRange(FieldLoop(text, text[m]).errs) :
                        e \in SeqRange(Recorded(text))
    /\ Len(Kept(text)) = Len(DailyRows(text))

\* C24: a data row whose number of fields differs from the header's records
\* one error with the expected and the actual column count and the row's
\* 1-based line position in the uploaded text, also when blank lines precede
\* it; it is left out of the daily records and the remaining rows are still
\* examined.
C24_RowShape ==
    (parseDone /\ Len(csvText) >= 2 /\ NotBlankLine(csvText[1])
        /\ HeaderAccepted(csvText)) => RowShapeRule(csvText)

\* ------------------------------------------------------------------ claims on the single-file variant

\* C25: in the single-file variant, whenever a file parses, every daily row
\* folded into a shot carries the shot's funnelStage.
C25_StagesNotMixed ==
    (parseDone /\ parsed.ok) =>
        LET daily == SingleFileValidate(Lines(csvText)).daily
        IN \A k \in 1..Len(parsed.shots) :
              \A i \in (3 * (k - 1) + 1)..Min(3 * k, Len(daily)) :
                  daily[i]["FUNNEL STAGE"] = parsed.shots[k]["funnelStage"]

\* ------------------------------------------------------------------ claims on the Dashboard

\* C26: whenever appState is DASHBOARD, metrics is calculateMetrics of the
\* current shotPerformanceData and the analysis was requested for that same
\* shot set, also when a file read that started before the analysis
\* completes after it.
C26_DashboardConsistent ==
    appState = "DASHBOARD" =>
        /\ metrics = << CalculateMetrics(shotPerformanceData) >>
        /\ analysis # << >> /\ analysis[1].shots = shotPerformanceData

\* ------------------------------------------------------------------ claims on the removal

\* The stage was removed and no upload for it has succeeded since.
IsRemoved(stage) ==
    stage \in DOMAIN uploadedStages /\ ~uploadedStages[stage]

\* C27: once a stage has been removed, no shot of that stage is in the
\* accumulated set or in the set passed to onDataLoaded until a later upload
\* for that stage succeeds, also when an upload for another stage was being
\* read at the moment of the removal.
C27_RemovedStaysOut ==
    \A stage \in Stages :
        IsRemoved(stage) =>
            /\ StageShots(accumulatedShots, stage) = << >>
            /\ StageShots(shotPerformanceData, stage) = << >>

\* ------------------------------------------------------------------ claims on the views

\* C28: whenever appState is DASHBOARD, analysis and metrics are both set and
\* shotPerformanceData is not empty, so that App renders the Dashboard in
\* every DASHBOARD state and in no other.
C28_DashboardComplete ==
    /\ appState = "DASHBOARD" =>
          /\ analysis # << >> /\ metrics # << >>
          /\ Len(shotPerformanceData) # 0
    /\ DashboardShown <=> appState = "DASHBOARD"

\* The Dashboard is up over a shot set that a late file read has replaced
\* since the analysis was asked for.
C28_Witness ==
    /\ DashboardShown
    /\ analysis[1].shots # shotPerformanceData
    /\ task = IdleTask

\* ------------------------------------------------------------------ claims on the analysis run

\* A step into ANALYZING.
AnalysisStarts == appState # "ANALYZING" /\ appState' = "ANALYZING"

\* The step of the catch branch: out of ANALYZING, back to UPLOAD.
AnalysisFails == appState = "ANALYZING" /\ appState' = "UPLOAD"

\* C29: the analysis starts only over a non-empty shot set; once appState is
\* ANALYZING it becomes DASHBOARD or UPLOAD, given that the request settles;
\* the failure leaves the shot set and the strategy text as they were and
\* analysis null, so that Run Analysis can be pressed again at once.
C29_AnalysisSettles ==
    /\ [][AnalysisStarts => Len(shotPerformanceData) # 0]_vars
    /\ [][AnalysisFails =>
             /\ shotPerformanceData' = shotPerformanceData
             /\ userFundamentals' = userFundamentals
             /\ analysis = << >> /\ analysis' = << >>
             /\ Len(shotPerformanceData') # 0
             /\ Trim(userFundamentals') # ""]_vars
    /\ [](appState = "ANALYZING" => analysis = << >>)
    /\ (appState = "ANALYZING") ~> (appState \in {"DASHBOARD", "UPLOAD"})

\* Back on the card after a failed analysis: the metrics of the run remain,
\* the shots and the strategy are still there.
C29_Witness ==
    /\ appState = "UPLOAD" /\ task = IdleTask
    /\ metrics # << >> /\ analysis = << >>
    /\ Len(shotPerformanceData) # 0
    /\ Trim(userFundamentals) # ""

\* ------------------------------------------------------------------ claims on the download

\* A handleDownloadPdf call has run to its end and none is under way.
DownloadFinished == pdf.phase = "idle" /\ pdf.outcome # "none"

\* C30: after handleDownloadPdf finishes, whether html2pdf resolved, threw,
\* or the handler returned early, downloadingPdf is false and every no-print
\* element that the call hid is displayed again.
C30_DownloadRestores ==
    DownloadFinished =>
        /\ ~downloadingPdf
        /\ \A e \in pdf.hidden : display[e] = ""

====
